---------------------------- MODULE Spec2Model ----------------------------
(***************************************************************************)
(* FinanceAI forecasting core (src/backend/ml_forecast.py).                *)
(*                                                                         *)
(* Conventions of the model                                                *)
(*  - A Python str is a sequence of one-character strings, so that         *)
(*    strip(), strptime(), strftime(), min()/max() over keys and base64    *)
(*    are computed character by character.                                 *)
(*  - A Python float amount is a fixed-point integer; "/" is Div.          *)
(*  - A Python call that may raise returns a record whose field exc is     *)
(*    "none" or the name of the exception.                                 *)
(***************************************************************************)
EXTENDS Integers, Sequences, FiniteSets, TLC

VARIABLES
    np,         \* TRUE when numpy / scikit-learn could be imported
    rows,       \* SeriesBuilder: the raw rows handed to fill_*_series
    s_pc,       \* SeriesBuilder: "input", "daily" or "monthly"
    s_out,      \* SeriesBuilder: what the call returned (or raised)
    z_pc,       \* Serializer: "input", "dumped", "reloaded" or "loaded"
    z_model,    \* Serializer: the fitted model handed to dumps_model
    z_tok,      \* Serializer: the token handed to _safe_load_model
    z_out,      \* Serializer: the token or the model the call returned
    pc,         \* Forecaster: "start", "trained" or "done"
    tr,         \* Forecaster: the arguments of the training call
    trained,    \* Forecaster: the payload the training call returned
    fc,         \* Forecaster: the arguments of the forecast call
    result,     \* Forecaster: what the forecast call returned (or raised)
    u_pc,       \* Function called on its own: "input", then the function's name
    u_in,       \* Function called on its own: its arguments
    u_out       \* Function called on its own: what it returned

seriesVars == <<rows, s_pc, s_out>>

serVars == <<z_pc, z_model, z_tok, z_out>>

mainVars == <<pc, tr, trained, fc, result>>

callVars == <<u_pc, u_in, u_out>>

vars == <<np, seriesVars, serVars, mainVars, callVars>>

\* no function is called on its own in the specification
CallIdle == u_pc = "idle" /\ u_in = <<>> /\ u_out = <<>>

\* the forecaster takes no part in the specification
MainIdle == pc = "idle" /\ tr = <<>> /\ trained = <<>> /\ fc = <<>> /\ result = <<>>

----------------------------------------------------------------------------
(* Generic helpers (Python built-ins)                                      *)

Max2(a, b) == IF a >= b THEN a ELSE b

Min2(a, b) == IF a <= b THEN a ELSE b

\* Python float division at the resolution of the model
Div(a, b) == a \div b

RECURSIVE SeqSum(_)
SeqSum(s) == IF s = <<>> THEN 0 ELSE s[1] + SeqSum(Tail(s))

\* list(f): the sequence f with every element computed, once
List(f) == f \o <<>>

\* s[-n:] for n >= 1
LastN(s, n) == IF n >= Len(s) THEN s ELSE SubSeq(s, Len(s) - n + 1, Len(s))

\* s[:n]
FirstN(s, n) == SubSeq(s, 1, Min2(n, Len(s)))

\* s[-k] for 1 <= k <= len(s); IndexError otherwise
HasNeg(s, k) == k >= 1 /\ k <= Len(s)

NegIdx(s, k) == s[Len(s) - k + 1]

----------------------------------------------------------------------------
(* Characters and strings                                                  *)

Digits == <<"0", "1", "2", "3", "4", "5", "6", "7", "8", "9">>

IsDigit(c) == \E i \in 1..10 : Digits[i] = c

DigitVal(c) == (CHOOSE i \in 1..10 : Digits[i] = c) - 1

DigitChar(n) == Digits[n + 1]

\* code point of the characters that occur in period keys
Ord(c) ==
    CASE c = " " -> 32
      [] c = "-" -> 45
      [] IsDigit(c) -> 48 + DigitVal(c)
      [] OTHER -> 120

\* Python's str "<": lexicographic by code point
RECURSIVE StrLess(_, _)
StrLess(a, b) ==
    IF b = <<>> THEN FALSE
    ELSE IF a = <<>> THEN TRUE
    ELSE IF Ord(a[1]) # Ord(b[1]) THEN Ord(a[1]) < Ord(b[1])
    ELSE StrLess(Tail(a), Tail(b))

StrMin(S) == CHOOSE a \in S : \A b \in S : a = b \/ StrLess(a, b)

StrMax(S) == CHOOSE a \in S : \A b \in S : a = b \/ StrLess(b, a)

RECURSIVE LStrip(_)
LStrip(s) == IF s # <<>> /\ s[1] = " " THEN LStrip(Tail(s)) ELSE s

RECURSIVE RStrip(_)
RStrip(s) ==
    IF s # <<>> /\ s[Len(s)] = " " THEN RStrip(SubSeq(s, 1, Len(s) - 1)) ELSE s

\* str.strip()
Strip(s) == RStrip(LStrip(s))

\* f"{n:02d}" and f"{n:04d}"
Fmt02(n) == <<DigitChar((n \div 10) % 10), DigitChar(n % 10)>>

Fmt04(n) ==
    <<DigitChar((n \div 1000) % 10), DigitChar((n \div 100) % 10),
      DigitChar((n \div 10) % 10), DigitChar(n % 10)>>

----------------------------------------------------------------------------
(* Calendar (datetime)                                                     *)

IsLeap(y) == (y % 4 = 0) /\ ((y % 100 # 0) \/ (y % 400 = 0))

DaysInMonth(y, m) ==
    IF m = 2 THEN (IF IsLeap(y) THEN 29 ELSE 28)
    ELSE IF m \in {4, 6, 9, 11} THEN 30 ELSE 31

RECURSIVE DaysBeforeMonth(_, _)
DaysBeforeMonth(y, m) ==
    IF m = 1 THEN 0 ELSE DaysBeforeMonth(y, m - 1) + DaysInMonth(y, m - 1)

DaysBeforeYear(y) ==
    (y - 1) * 365 + ((y - 1) \div 4) - ((y - 1) \div 100) + ((y - 1) \div 400)

\* date.toordinal()
ToOrdinal(y, m, d) == DaysBeforeYear(y) + DaysBeforeMonth(y, m) + d

\* date.fromordinal(): the record [y, m, d]
FromOrdinal(n) ==
    LET ya == ((n - 1) \div 365) + 1
        y  == CHOOSE k \in (ya - 3)..ya :
                  DaysBeforeYear(k) < n /\ n <= DaysBeforeYear(k + 1)
        doy == n - DaysBeforeYear(y)
        m  == CHOOSE k \in 1..12 :
                  DaysBeforeMonth(y, k) < doy
                  /\ doy <= DaysBeforeMonth(y, k) + DaysInMonth(y, k)
    IN  [y |-> y, m |-> m, d |-> doy - DaysBeforeMonth(y, m)]

\* datetime.weekday(): Monday = 0
Weekday(n) == (n + 6) % 7

NoDate == 0

\* the %m token of strptime: 1[0-2] | 0[1-9] | [1-9]
MonthTok(t) ==
    IF Len(t) = 1 THEN IsDigit(t[1]) /\ t[1] # "0"
    ELSE /\ Len(t) = 2
         /\ IsDigit(t[1]) /\ IsDigit(t[2])
         /\ \/ (t[1] = "1" /\ DigitVal(t[2]) <= 2)
            \/ (t[1] = "0" /\ t[2] # "0")

\* the %d token of strptime: 3[01] | [12]\d | 0[1-9] | [1-9] | " "[1-9]
DayTok(t) ==
    IF Len(t) = 1 THEN IsDigit(t[1]) /\ t[1] # "0"
    ELSE /\ Len(t) = 2
         /\ IsDigit(t[2])
         /\ \/ (t[1] = "3" /\ DigitVal(t[2]) <= 1)
            \/ t[1] \in {"1", "2"}
            \/ (t[1] \in {"0", " "} /\ t[2] # "0")

TokVal(t) ==
    IF Len(t) = 1 THEN DigitVal(t[1])
    ELSE (IF t[1] = " " THEN 0 ELSE 10 * DigitVal(t[1])) + DigitVal(t[2])

YearVal(s) ==
    1000 * DigitVal(s[1]) + 100 * DigitVal(s[2]) + 10 * DigitVal(s[3]) + DigitVal(s[4])

\* datetime.strptime(s, "%Y-%m-%d"): the ordinal of the day, or NoDate when it
\* raises ValueError (no match, unconverted data, day out of range, year 0)
Strptime(s) ==
    LET n  == Len(s)
        ok == /\ n \in 8..10
              /\ \A i \in 1..4 : IsDigit(s[i])
              /\ s[5] = "-"
              /\ \E ml \in 1..2 :
                    /\ 6 + ml < n
                    /\ s[6 + ml] = "-"
                    /\ MonthTok(SubSeq(s, 6, 5 + ml))
                    /\ DayTok(SubSeq(s, 7 + ml, n))
    IN  IF ~ok THEN NoDate
        ELSE LET ml == CHOOSE k \in 1..2 :
                           /\ 6 + k < n
                           /\ s[6 + k] = "-"
                           /\ MonthTok(SubSeq(s, 6, 5 + k))
                           /\ DayTok(SubSeq(s, 7 + k, n))
                 y  == YearVal(s)
                 m  == TokVal(SubSeq(s, 6, 5 + ml))
                 d  == TokVal(SubSeq(s, 7 + ml, n))
             IN  IF y >= 1 /\ d <= DaysInMonth(y, m) THEN ToOrdinal(y, m, d)
                 ELSE NoDate

\* def _parse_ymd(d): None (NoDate) instead of the exception
_parse_ymd(d) == Strptime(d)

\* datetime.strftime("%Y-%m-%d")
Strftime(n) ==
    LET fmt(p) == Fmt04(p.y) \o <<"-">> \o Fmt02(p.m) \o <<"-">> \o Fmt02(p.d)
    IN  fmt(FromOrdinal(n))

----------------------------------------------------------------------------
(* Raw rows and defensive conversions                                      *)

\* the value found under a row's period key ("date" or "ym")
KStr(s) == [t |-> "str", s |-> s]

\* key missing, None, or another falsy value: (r.get(k) or "") is ""
KNone == [t |-> "none", s |-> <<>>]

\* a truthy value that is not a str (an int such as 20250105): it has no strip()
KInt == [t |-> "int", s |-> <<>>]

\* the value found under an amount key
ANum(v) == [t |-> "num", v |-> v]

ANone == [t |-> "none", v |-> 0]

\* a text that float() cannot convert
AText == [t |-> "text", v |-> 0]

Row(k, i, e) == [isdict |-> TRUE, key |-> k, income |-> i, expense |-> e]

\* a row that is not a dict
NonDict == [isdict |-> FALSE, key |-> KNone, income |-> ANone, expense |-> ANone]

\* def _safe_float(x, default)
_safe_float(x, default) == IF x.t = "num" THEN x.v ELSE default

\* what a call returns: the three parallel sequences, or the exception raised
Returned(d, i, e) == [exc |-> "none", dates |-> d, inc |-> i, exp |-> e]

Raised(x) == [exc |-> x, dates |-> <<>>, inc |-> <<>>, exp |-> <<>>]

----------------------------------------------------------------------------
(* SeriesBuilder                                                           *)

\* (r.get(key) or "").strip() raises AttributeError on a truthy non-str key
StripRaises(rs) == \E i \in 1..Len(rs) : rs[i].isdict /\ rs[i].key.t = "int"

\* the rows of fill_daily_series that reach  by_d[d] = r
AcceptedDaily(rs) ==
    {i \in 1..Len(rs) :
        /\ rs[i].isdict
        /\ rs[i].key.t = "str"
        /\ Strip(rs[i].key.s) # <<>>
        /\ _parse_ymd(Strip(rs[i].key.s)) # NoDate}

\* the dict built by the loop: stripped key -> index of the last row storing it
LastWins(rs, acc) ==
    [k \in {Strip(rs[i].key.s) : i \in acc} |->
        CHOOSE i \in acc :
            /\ Strip(rs[i].key.s) = k
            /\ \A j \in acc : Strip(rs[j].key.s) = k => j <= i]

\* the loop  while cur <= end  of fill_daily_series: the days from ordinal d0
\* to ordinal d1, formatted
DaySeq(d0, d1) ==
    List([i \in 1..(IF d1 >= d0 THEN d1 - d0 + 1 ELSE 0) |-> Strftime(d0 + i - 1)])

\* the three sequences over the periods:  r = by_key.get(period, {})  and the
\* amounts of r through _safe_float
SeriesOver(rs, by_key, periods) ==
    Returned(
      periods,
      List([i \in 1..Len(periods) |->
          IF periods[i] \in DOMAIN by_key
          THEN _safe_float(rs[by_key[periods[i]]].income, 0) ELSE 0]),
      List([i \in 1..Len(periods) |->
          IF periods[i] \in DOMAIN by_key
          THEN _safe_float(rs[by_key[periods[i]]].expense, 0) ELSE 0]))

\* def fill_daily_series(rows)
fill_daily_series(rs) ==
    IF rs = <<>> THEN Returned(<<>>, <<>>, <<>>)
    ELSE IF StripRaises(rs) THEN Raised("AttributeError")
    ELSE
      LET filled(by_d) ==
              IF DOMAIN by_d = {} THEN Returned(<<>>, <<>>, <<>>)
              ELSE SeriesOver(rs, by_d, DaySeq(Strptime(StrMin(DOMAIN by_d)),
                                               Strptime(StrMax(DOMAIN by_d))))
      IN  filled(LastWins(rs, AcceptedDaily(rs)))

FmtYm(y, m) == Fmt04(y) \o <<"-">> \o Fmt02(m)

\* ym.split("-") followed by int(): valid for "YYYY-M" and "YYYY-MM"
SplitYm(s) == [y |-> YearVal(s), m |-> TokVal(SubSeq(s, 6, Len(s)))]

RECURSIVE MonthLoop(_, _, _, _)
MonthLoop(y, m, y_end, m_end) ==
    IF (y < y_end) \/ (y = y_end /\ m <= m_end)
    THEN <<FmtYm(y, m)>> \o
         (IF m + 1 = 13 THEN MonthLoop(y + 1, 1, y_end, m_end)
          ELSE MonthLoop(y, m + 1, y_end, m_end))
    ELSE <<>>

\* def month_seq(start_ym, end_ym)
month_seq(start_ym, end_ym) ==
    MonthLoop(SplitYm(start_ym).y, SplitYm(start_ym).m,
              SplitYm(end_ym).y, SplitYm(end_ym).m)

\* the rows of fill_monthly_series that reach  by_ym[ym] = r
AcceptedMonthly(rs) ==
    {i \in 1..Len(rs) :
        /\ rs[i].isdict
        /\ rs[i].key.t = "str"
        /\ Strip(rs[i].key.s) # <<>>
        /\ Strptime(Strip(rs[i].key.s) \o <<"-", "0", "1">>) # NoDate}

\* def fill_monthly_series(rows)
fill_monthly_series(rs) ==
    IF rs = <<>> THEN Returned(<<>>, <<>>, <<>>)
    ELSE IF StripRaises(rs) THEN Raised("AttributeError")
    ELSE
      LET filled(by_ym) ==
              IF DOMAIN by_ym = {} THEN Returned(<<>>, <<>>, <<>>)
              ELSE SeriesOver(rs, by_ym, month_seq(StrMin(DOMAIN by_ym),
                                                   StrMax(DOMAIN by_ym)))
      IN  filled(LastWins(rs, AcceptedMonthly(rs)))

----------------------------------------------------------------------------
(* Fitted models (scikit-learn estimators)                                 *)

\* A fitted estimator: its family, the number of features it was fitted on
\* and the parameters the fit produced (an intercept w0 and a weight w1 on
\* feature k).  The fit itself is the library's: its outcome is drawn from
\* FitPool.
Model(f, n, a, b, k) == [family |-> f, nfeat |-> n, w0 |-> a, w1 |-> b, k |-> k]

\* Python's None where a model is expected
NoModel == [family |-> "none", nfeat |-> 0, w0 |-> 0, w1 |-> 0, k |-> 0]

Value(v) == [exc |-> "none", val |-> v]

Raise(x) == [exc |-> x, val |-> 0]

\* model.predict(X)[0]
Predict(m, X) ==
    IF m = NoModel THEN Raise("AttributeError")
    ELSE IF Len(X) # m.nfeat THEN Raise("ValueError")
    ELSE Value(m.w0 + m.w1 * X[m.k])

----------------------------------------------------------------------------
(* Serializer: pickle + base64                                             *)

\* an Optional[str]
NoToken == [t |-> "none", s |-> <<>>]

Token(s) == [t |-> "str", s |-> s]

FamilyCode(f) == IF f = "ridge" THEN 1 ELSE 2

\* a signed parameter as one byte
ToByte(v) == (v + 256) % 256

FromByte(b) == IF b >= 128 THEN b - 256 ELSE b

\* pickle.dumps(obj, protocol=HIGHEST_PROTOCOL): PROTO 5, the object, STOP
PickleDumps(m) ==
    <<128, 5, FamilyCode(m.family), m.nfeat, ToByte(m.w0), ToByte(m.w1), m.k>>
    \o (IF m.family = "hgb" THEN <<3>> ELSE <<>>) \o <<46>>

\* pickle.loads(raw): the object, or the exception; data after STOP is ignored.
\* The estimator classes cannot be imported without the numeric runtime.
PickleLoads(raw) ==
    IF Len(raw) < 3 \/ raw[1] # 128 \/ raw[2] > 5 \/ raw[3] \notin {1, 2}
    THEN Raise("UnpicklingError")
    ELSE LET n == IF raw[3] = 1 THEN 8 ELSE 9
         IN  IF Len(raw) < n \/ raw[n] # 46 THEN Raise("UnpicklingError")
             ELSE IF ~np THEN Raise("ModuleNotFoundError")
             ELSE Value(Model(IF raw[3] = 1 THEN "ridge" ELSE "hgb", raw[4],
                              FromByte(raw[5]), FromByte(raw[6]), raw[7]))

B64Alphabet ==
    <<
      "A", "B", "C", "D", "E", "F", "G", "H", "I", "J", "K", "L", "M", "N", "O", "P",
      "Q", "R", "S", "T", "U", "V", "W", "X", "Y", "Z", "a", "b", "c", "d", "e", "f",
      "g", "h", "i", "j", "k", "l", "m", "n", "o", "p", "q", "r", "s", "t", "u", "v",
      "w", "x", "y", "z", "0", "1", "2", "3", "4", "5", "6", "7", "8", "9", "+", "/"
    >>

IsB64(c) == \E i \in 1..64 : B64Alphabet[i] = c

B64Val(c) == (CHOOSE i \in 1..64 : B64Alphabet[i] = c) - 1

B64Chr(v) == B64Alphabet[v + 1]

\* base64.b64encode(raw)
RECURSIVE B64Encode(_)
B64Encode(raw) ==
    IF Len(raw) = 0 THEN <<>>
    ELSE IF Len(raw) = 1 THEN
        <<B64Chr(raw[1] \div 4), B64Chr((raw[1] % 4) * 16), "=", "=">>
    ELSE IF Len(raw) = 2 THEN
        <<B64Chr(raw[1] \div 4), B64Chr((raw[1] % 4) * 16 + raw[2] \div 16),
          B64Chr((raw[2] % 16) * 4), "=">>
    ELSE
        <<B64Chr(raw[1] \div 4), B64Chr((raw[1] % 4) * 16 + raw[2] \div 16),
          B64Chr((raw[2] % 16) * 4 + raw[3] \div 64), B64Chr(raw[3] % 64)>>
        \o B64Encode(SubSeq(raw, 4, Len(raw)))

\* base64.b64decode(s) (validate=False): characters outside the alphabet are
\* skipped, a complete padding ends the data, an incomplete quad is an error
RECURSIVE A2B(_, _, _, _, _, _)
A2B(s, i, quad_pos, leftchar, pads, out) ==
    IF i > Len(s) THEN
        (IF quad_pos # 0 THEN Raise("binascii.Error") ELSE Value(out))
    ELSE IF s[i] = "=" THEN
        (IF quad_pos >= 2 /\ quad_pos + pads + 1 >= 4 THEN Value(out)
         ELSE A2B(s, i + 1, quad_pos, leftchar, pads + 1, out))
    ELSE IF ~IsB64(s[i]) THEN A2B(s, i + 1, quad_pos, leftchar, pads, out)
    ELSE LET v == B64Val(s[i])
         IN  CASE quad_pos = 0 -> A2B(s, i + 1, 1, v, 0, out)
               [] quad_pos = 1 ->
                    A2B(s, i + 1, 2, v % 16, 0, Append(out, leftchar * 4 + v \div 16))
               [] quad_pos = 2 ->
                    A2B(s, i + 1, 3, v % 4, 0, Append(out, leftchar * 16 + v \div 4))
               [] OTHER ->
                    A2B(s, i + 1, 0, 0, 0, Append(out, leftchar * 64 + v))

B64Decode(s) == A2B(s, 1, 0, 0, 0, <<>>)

\* dumps_model with the "=" padding dropped from the text
Mut_DumpsNoPadding(obj) ==
    Token(SelectSeq(B64Encode(PickleDumps(obj)), LAMBDA c : c # "="))

\* def dumps_model(obj)
dumps_model(obj) == Token(B64Encode(PickleDumps(obj)))

\* def loads_model(b64)
loads_model(b64) ==
    LET raw == B64Decode(b64.s)
    IN  IF raw.exc # "none" THEN Raise(raw.exc) ELSE PickleLoads(raw.val)

\* _safe_load_model without its try/except
Mut_SafeLoadNoTry(b64) ==
    IF b64.t = "none" \/ b64.s = <<>> THEN Value(NoModel) ELSE loads_model(b64)

\* def _safe_load_model(b64): None (NoModel) instead of any exception
_safe_load_model(b64) ==
    IF b64.t = "none" \/ b64.s = <<>> THEN Value(NoModel)
    ELSE LET caught(r) == IF r.exc # "none" THEN Value(NoModel) ELSE r
         IN  caught(loads_model(b64))

----------------------------------------------------------------------------
(* Specification SpecSeries: fill_daily_series and fill_monthly_series     *)
(* applied to every list of at most MaxRows raw rows of RowPool            *)

MaxRows == 2

Y2024 == <<"2", "0", "2", "4">>

Y2025 == <<"2", "0", "2", "5">>

RowPool ==
    { Row(KStr(Y2025 \o <<"-", "0", "1", "-", "0", "5">>), ANum(3), ANum(1)),
      Row(KStr(Y2025 \o <<"-", "0", "1", "-", "0", "5">>), ANum(2), ANum(4)),
      Row(KStr(Y2025 \o <<"-", "0", "1", "-", "0", "7">>), ANum(1), ANum(2)),
      Row(KStr(<<" ">> \o Y2025 \o <<"-", "0", "1", "-", "0", "8", " ">>), ANum(5), ANum(0)),
      Row(KStr(Y2025 \o <<"-", "1", "-", "5">>), ANum(4), ANum(2)),
      Row(KStr(Y2025 \o <<"-", "0", "1", "-", "0", "6">>), AText, ANone),
      Row(KStr(Y2025 \o <<"-", "0", "2", "-", "3", "0">>), ANum(1), ANum(1)),
      Row(KStr(<<"x", "x">>), ANum(1), ANum(1)),
      Row(KStr(<<" ">>), ANum(1), ANum(1)),
      Row(KNone, ANum(1), ANum(1)),
      Row(KInt, ANum(1), ANum(1)),
      NonDict,
      Row(KStr(Y2024 \o <<"-", "1", "2">>), ANum(1), ANum(3)),
      Row(KStr(Y2025 \o <<"-", "0", "2">>), ANum(3), ANum(1)),
      Row(KStr(Y2025 \o <<"-", "2">>), ANum(2), ANum(2)),
      Row(KStr(Y2025 \o <<"-", "1", "0">>), AText, ANum(1)) }

\* every sequence over S of length at most n
RECURSIVE SeqsUpTo(_, _)
SeqsUpTo(S, n) ==
    IF n = 0 THEN {<<>>}
    ELSE LET shorter == SeqsUpTo(S, n - 1)
         IN  shorter \cup {Append(q, x) : q \in shorter, x \in S}

NoOut == Raised("not called")

NoLoad == Raise("not called")

SerIdle ==
    /\ z_pc = "idle"
    /\ z_model = NoModel
    /\ z_tok = NoToken
    /\ z_out = [tok |-> NoToken, res |-> NoLoad]

SeriesIdle == rows = <<>> /\ s_pc = "idle" /\ s_out = NoOut

InitSeries ==
    /\ rows \in SeqsUpTo(RowPool, MaxRows)
    /\ s_pc = "input"
    /\ s_out = NoOut
    /\ np = TRUE
    /\ SerIdle
    /\ MainIdle
    /\ CallIdle

FillDaily ==
    /\ s_pc = "input"
    /\ s_out' = fill_daily_series(rows)
    /\ s_pc' = "daily"
    /\ UNCHANGED <<np, rows, serVars, mainVars, callVars>>

FillMonthly ==
    /\ s_pc = "input"
    /\ s_out' = fill_monthly_series(rows)
    /\ s_pc' = "monthly"
    /\ UNCHANGED <<np, rows, serVars, mainVars, callVars>>

NextSeries == FillDaily \/ FillMonthly

SpecSeries == InitSeries /\ [][NextSeries]_vars

----------------------------------------------------------------------------
(* Claims about SeriesBuilder (checked under SpecSeries)                   *)

\* the period a key denotes: the day ordinal, or the month number y*12+m
DailyPeriod(s) == Strptime(s)

MonthlyPeriod(s) == SplitYm(s).y * 12 + SplitYm(s).m

Period(s) == IF s_pc = "daily" THEN DailyPeriod(s) ELSE MonthlyPeriod(s)

\* the rows the call accepted, and the period each one denotes
Accepted == IF s_pc = "daily" THEN AcceptedDaily(rows) ELSE AcceptedMonthly(rows)

RowPeriod(j) == Period(Strip(rows[j].key.s))

ObservedPeriods == {RowPeriod(j) : j \in Accepted}

SeriesReturned == s_pc \in {"daily", "monthly"} /\ s_out.exc = "none"

\* C4: whenever fill_daily_series / fill_monthly_series returns for a row list
\* with at least one valid period key, the three sequences have equal length,
\* the periods start at the minimum and end at the maximum observed period, and
\* each period is the calendar successor of the one before it (so the periods
\* are strictly increasing and hold every period of [min,max] exactly once).
C4_PeriodsContiguous ==
    (SeriesReturned /\ Accepted # {}) =>
        LET n == Len(s_out.dates)
        IN  /\ Len(s_out.inc) = n /\ Len(s_out.exp) = n
            /\ n >= 1
            /\ \A p \in ObservedPeriods : Period(s_out.dates[1]) <= p
            /\ \A p \in ObservedPeriods : p <= Period(s_out.dates[n])
            /\ Period(s_out.dates[1]) \in ObservedPeriods
            /\ Period(s_out.dates[n]) \in ObservedPeriods
            /\ \A i \in 1..(n - 1) :
                  Period(s_out.dates[i + 1]) = Period(s_out.dates[i]) + 1

\* C5: in the returned series every accepted row's period is present, the
\* income and expense at a period are those of the last input row whose key
\* parses to that period, and a period no accepted row denotes holds (0, 0).
C5_LastRowWinsNothingLost ==
    SeriesReturned =>
        /\ \A j \in Accepted :
              \E i \in 1..Len(s_out.dates) : Period(s_out.dates[i]) = RowPeriod(j)
        /\ \A i \in 1..Len(s_out.dates) :
              LET same == {j \in Accepted : RowPeriod(j) = Period(s_out.dates[i])}
              IN  IF same = {}
                  THEN s_out.inc[i] = 0 /\ s_out.exp[i] = 0
                  ELSE LET last == CHOOSE j \in same : \A k \in same : k <= j
                       IN  /\ s_out.inc[i] = _safe_float(rows[last].income, 0)
                           /\ s_out.exp[i] = _safe_float(rows[last].expense, 0)

\* C6: fill_daily_series / fill_monthly_series never raises, whatever the rows
\* are, and returns three empty sequences when no row has a valid period key.
C6_FillNeverRaises ==
    (s_pc \in {"daily", "monthly"}) =>
        /\ s_out.exc = "none"
        /\ (Accepted = {}) =>
              (s_out.dates = <<>> /\ s_out.inc = <<>> /\ s_out.exp = <<>>)

----------------------------------------------------------------------------
(* Specification SpecSerializer: dumps_model and _safe_load_model applied  *)
(* to every fitted model of ModelPool and every token of TokenPool         *)

\* length of a feature row: date features + 2 x lags + means and net features
NFeatDaily(lags) == 8 + 2 * lags + 6

NFeatMonthly(lags) == 4 + 2 * lags + 6

\* what fitting a family on rows of n features can produce
FitPool(f, n, k) == {Model(f, n, a, b, k) : a \in {0 - 3, 2}, b \in {0, 1}}

ModelPool ==
    UNION {FitPool(f, NFeatDaily(3), 9) \cup FitPool(f, NFeatMonthly(2), 5) :
            f \in {"ridge", "hgb"}}

RidgeTok == dumps_model(Model("ridge", NFeatDaily(3), 0 - 3, 1, 9)).s

HgbTok == dumps_model(Model("hgb", NFeatMonthly(2), 2, 0, 5)).s

NotValidB64 ==
    <<"n", "o", "t", "-", "v", "a", "l", "i", "d", "-", "b", "a", "s", "e", "6", "4">>

TokenPool ==
    { NoToken,
      Token(<<>>),
      Token(<<" ">>),
      Token(NotValidB64),
      Token(RidgeTok),
      Token(HgbTok),
      Token(SubSeq(RidgeTok, 1, Len(RidgeTok) - 1)),    \* padding cut off
      Token(SubSeq(HgbTok, 1, 8)),                      \* pickle cut short
      Token(<<"-">> \o RidgeTok),                       \* a skipped character
      Token(RidgeTok \o <<"x", "x">>),                  \* text after the padding
      Token(<<"A", "A", "A", "A">>),                    \* base64 of no pickle
      Token(B64Encode(<<128, 6, 1, 20, 0, 0, 9, 46>>)) }  \* unknown protocol

InitSerializer ==
    /\ np \in BOOLEAN
    /\ z_pc = "input"
    /\ z_model \in ModelPool
    /\ z_tok \in TokenPool
    /\ z_out = [tok |-> NoToken, res |-> NoLoad]
    /\ SeriesIdle
    /\ MainIdle
    /\ CallIdle

\* dumps_model(m) of a model fitted in this process
Dumps ==
    /\ z_pc = "input"
    /\ np
    /\ z_out' = [tok |-> dumps_model(z_model), res |-> NoLoad]
    /\ z_pc' = "dumped"
    /\ UNCHANGED <<np, z_model, z_tok, seriesVars, mainVars, callVars>>

\* _safe_load_model(dumps_model(m))
Reload ==
    /\ z_pc = "dumped"
    /\ z_out' = [z_out EXCEPT !.res = _safe_load_model(z_out.tok)]
    /\ z_pc' = "reloaded"
    /\ UNCHANGED <<np, z_model, z_tok, seriesVars, mainVars, callVars>>

\* _safe_load_model(token) of a stored token
SafeLoad ==
    /\ z_pc = "input"
    /\ z_out' = [tok |-> z_tok, res |-> _safe_load_model(z_tok)]
    /\ z_pc' = "loaded"
    /\ UNCHANGED <<np, z_model, z_tok, seriesVars, mainVars, callVars>>

NextSerializer == Dumps \/ Reload \/ SafeLoad

SpecSerializer == InitSerializer /\ [][NextSerializer]_vars

----------------------------------------------------------------------------
(* Claims about the Serializer (checked under SpecSerializer)              *)

\* C9: _safe_load_model never raises; it returns None for an absent or empty
\* token and for a token whose base64 decoding or unpickling fails (such as
\* "not-valid-base64"), and the unpickled model otherwise.
C9_SafeLoadNeverRaises ==
    (z_pc = "loaded") =>
        /\ z_out.res.exc = "none"
        /\ (z_tok = NoToken \/ z_tok = Token(<<>>)) => z_out.res.val = NoModel
        /\ (z_tok = Token(NotValidB64)) => z_out.res.val = NoModel
        /\ (z_tok.t = "str" /\ B64Decode(z_tok.s).exc # "none") =>
              z_out.res.val = NoModel
        /\ (z_tok.t = "str" /\ B64Decode(z_tok.s).exc = "none"
              /\ PickleLoads(B64Decode(z_tok.s).val).exc # "none") =>
              z_out.res.val = NoModel
        /\ (z_tok.t = "str" /\ z_tok.s # <<>> /\ B64Decode(z_tok.s).exc = "none"
              /\ PickleLoads(B64Decode(z_tok.s).val).exc = "none") =>
              z_out.res.val = PickleLoads(B64Decode(z_tok.s).val).val

\* C9 witness: a corrupted token was loaded, and so was a valid one
W9_CorruptTokenLoaded ==
    /\ z_pc = "loaded"
    /\ z_tok = Token(SubSeq(RidgeTok, 1, Len(RidgeTok) - 1))
    /\ z_out.res = Value(NoModel)

\* feature rows a model is probed with
ProbeRows(n) == {[i \in 1..n |-> v] : v \in {0, 1, 5}}

IsTransportSafe(tok) ==
    /\ tok.t = "str"
    /\ tok.s # <<>>
    /\ Len(tok.s) % 4 = 0
    /\ \A i \in 1..Len(tok.s) : IsB64(tok.s[i]) \/ tok.s[i] = "="

\* C10: dumps_model(m) is one base64 text, and _safe_load_model(dumps_model(m))
\* is a model that predicts what m predicts on the same input.
C10_RoundTrip ==
    /\ (z_pc \in {"dumped", "reloaded"}) => IsTransportSafe(z_out.tok)
    /\ (z_pc = "reloaded") =>
          /\ z_out.res.exc = "none"
          /\ z_out.res.val # NoModel
          /\ \A X \in ProbeRows(z_model.nfeat) :
                /\ Predict(z_out.res.val, X) = Predict(z_model, X)
                /\ Predict(z_model, X).exc = "none"

\* C10 witness: a ridge model with a negative intercept went through the round trip
W10_Reloaded ==
    /\ z_pc = "reloaded"
    /\ z_model.family = "ridge"
    /\ z_model.w0 < 0
    /\ z_out.res.val = z_model

----------------------------------------------------------------------------
(* Statistics                                                              *)

Abs(x) == IF x < 0 THEN 0 - x ELSE x

\* math.sqrt at the resolution of the model: the r with r*r <= n < (r+1)*(r+1),
\* found by bisection between lo and hi
RECURSIVE SqrtSearch(_, _, _)
SqrtSearch(n, lo, hi) ==
    IF hi - lo <= 1 THEN lo
    ELSE LET mid == (lo + hi) \div 2
         IN  IF mid * mid <= n THEN SqrtSearch(n, mid, hi) ELSE SqrtSearch(n, lo, mid)

ISqrt(n) == SqrtSearch(n, 0, Min2(n, 46340) + 1)

\* def _mean(xs)
_mean(xs) == IF xs = <<>> THEN 0 ELSE Div(SeqSum(xs), Len(xs))

\* def _std(xs): population standard deviation, 0 for fewer than two values
_std(xs) ==
    IF Len(xs) <= 1 THEN 0
    ELSE LET n  == Len(xs)
             s1 == SeqSum(xs)
             s2 == SeqSum(List([i \in 1..n |-> xs[i] * xs[i]]))
         IN  ISqrt(Div(n * s2 - s1 * s1, n * n))

\* def _rolling_mean(vals, w)
_rolling_mean(vals, w) ==
    IF vals = <<>> THEN 0
    ELSE LET w2 == Max2(1, Min2(w, Len(vals)))
         IN  Div(SeqSum(LastN(vals, w2)), w2)

----------------------------------------------------------------------------
(* FeatureEncoder                                                          *)

\* sin and cos of 2*pi*dow/7 (dow = 0..6) and of 2*pi*month/12 (month = 1..12),
\* in thousandths
Sin7 == <<0, 782, 975, 434, 0 - 434, 0 - 975, 0 - 782>>

Cos7 == <<1000, 623, 0 - 223, 0 - 901, 0 - 901, 0 - 223, 623>>

Sin12 == <<500, 866, 1000, 866, 500, 0, 0 - 500, 0 - 866, 0 - 1000, 0 - 866, 0 - 500, 0>>

Cos12 == <<866, 500, 0, 0 - 500, 0 - 866, 0 - 1000, 0 - 866, 0 - 500, 0, 500, 866, 1000>>

\* def _date_feats(date_str, t_idx)
_date_feats(date_str, t_idx) ==
    LET feats(dow, dt) ==
            <<t_idx, dow, Sin7[dow + 1], Cos7[dow + 1], dt.d, dt.m, Sin12[dt.m], Cos12[dt.m]>>
    IN  feats(Weekday(Strptime(date_str)), FromOrdinal(Strptime(date_str)))

\* def _ym_feats(ym, t_idx)
_ym_feats(ym, t_idx) ==
    LET month == SplitYm(ym).m
    IN  <<t_idx, month, Sin12[month], Cos12[month]>>

\* [a - b for a, b in zip(inc, exp)]
NetOf(inc, exp) == List([j \in 1..Min2(Len(inc), Len(exp)) |-> inc[j] - exp[j]])

\* [vals[i - k] for k in range(1, lags + 1)] with i the 0-based index of the row
LagsBefore(vals, i, lags) == List([k \in 1..lags |-> vals[i - k + 1]])

\* one row of _make_supervised_daily: the features of dates[i] (0-based i)
SupervisedRowDaily(dates, inc, exp, lags, i) ==
    _date_feats(dates[i + 1], i)
    \o LagsBefore(inc, i, lags) \o LagsBefore(exp, i, lags)
    \o <<_rolling_mean(FirstN(inc, i), 7), _rolling_mean(FirstN(inc, i), 14),
         _rolling_mean(FirstN(exp, i), 7), _rolling_mean(FirstN(exp, i), 14),
         inc[i] - exp[i],
         _rolling_mean(NetOf(FirstN(inc, i), FirstN(exp, i)), 7)>>

\* def _make_supervised_daily(dates, inc, exp, lags): the matrix X
_make_supervised_daily(dates, inc, exp, lags) ==
    List([r \in 1..Max2(0, Len(dates) - lags) |->
            SupervisedRowDaily(dates, inc, exp, lags, lags + r - 1)])

\* one row of _make_supervised_monthly
SupervisedRowMonthly(yms, inc, exp, lags, i) ==
    _ym_feats(yms[i + 1], i)
    \o LagsBefore(inc, i, lags) \o LagsBefore(exp, i, lags)
    \o <<_rolling_mean(FirstN(inc, i), 3), _rolling_mean(FirstN(inc, i), 6),
         _rolling_mean(FirstN(exp, i), 3), _rolling_mean(FirstN(exp, i), 6),
         inc[i] - exp[i],
         _rolling_mean(NetOf(FirstN(inc, i), FirstN(exp, i)), 3)>>

\* def _make_supervised_monthly(yms, inc, exp, lags): the matrix X
_make_supervised_monthly(yms, inc, exp, lags) ==
    List([r \in 1..Max2(0, Len(yms) - lags) |->
            SupervisedRowMonthly(yms, inc, exp, lags, lags + r - 1)])

\* y_inc / y_exp of _make_supervised_*: vals[lags:]
TargetsFrom(vals, lags) == SubSeq(vals, lags + 1, Len(vals))

----------------------------------------------------------------------------
(* BaselineEstimator                                                       *)

\* the values of the last min(len(dates), 56) observations that fall on the
\* weekday dow (a date strptime rejects is skipped)
SameDow(history_dates, history_vals, dow) ==
    LET lookback == Min2(Len(history_dates), 56)
        ds == LastN(history_dates, lookback)
        vs == IF lookback = 0 THEN history_vals ELSE LastN(history_vals, lookback)
        n  == Min2(Len(ds), Len(vs))
        on_dow(o) == o # NoDate /\ Weekday(o) = dow
        same(idx) ==
            [sum |-> SeqSum(List([j \in 1..n |-> IF j \in idx THEN vs[j] ELSE 0])),
             cnt |-> Cardinality(idx)]
    IN  same({j \in 1..n : on_dow(Strptime(ds[j]))})

\* def _baseline_seasonal_predict_one(history_dates, history_vals, target_date),
\* fallback_w = 7, alpha = 0.6
_baseline_seasonal_predict_one(history_dates, history_vals, target_date) ==
    IF history_vals = <<>> THEN 0
    ELSE LET blend(ma, sd) ==
                 IF sd.cnt = 0 THEN ma
                 ELSE Div(6 * Div(sd.sum, sd.cnt) + 4 * ma, 10)
         IN  blend(_rolling_mean(history_vals, 7),
                   SameDow(history_dates, history_vals, Weekday(Strptime(target_date))))

----------------------------------------------------------------------------
(* ModelSelector: _walk_forward_mae and _fit_one_target                    *)

\* @dataclass class TrainedTarget
TrainedTarget(algo, model_b64, mae_val, baseline_mae_val, resid_std) ==
    [algo |-> algo, model_b64 |-> model_b64, mae_val |-> mae_val,
     baseline_mae_val |-> baseline_mae_val, resid_std |-> resid_std]

\* def _mae(y_true, y_pred)
_mae(y_true, y_pred) ==
    Div(SeqSum(List([j \in 1..Len(y_true) |-> Abs(y_true[j] - y_pred[j])])),
        Len(y_true))

\* the steps of def _walk_forward_mae: range(n_start, end), as a sequence
WalkSteps(n, n_start, n_steps) ==
    LET s == Max2(5, Min2(n_start, n - 2))
        e == Min2(n, s + Max2(1, n_steps))
    IN  List([j \in 1..Max2(0, e - s) |-> s + j - 1])

\* baseline_fit_predict of _fit_one_target at step t (ytr = y[:t])
baseline_fit_predict(y, dates_for_baseline, has_dates, t) ==
    IF ~has_dates THEN y[t]
    ELSE IF t < 1 THEN 0
    ELSE IF t >= Len(dates_for_baseline) THEN y[t]
    ELSE _baseline_seasonal_predict_one(FirstN(dates_for_baseline, t),
                                        FirstN(y, t), dates_for_baseline[t + 1])

\* n_val = max(10, int(0.2 * n))
NVal(n) == Max2(10, Div(2 * n, 10))

\* base_mae of _fit_one_target: _walk_forward_mae with baseline_fit_predict
BaseMae(y, dates_for_baseline, has_dates) ==
    LET n  == Len(y)
        ts == WalkSteps(n, n - NVal(n), NVal(n))
    IN  _mae(List([j \in 1..Len(ts) |-> y[ts[j] + 1]]),
             List([j \in 1..Len(ts) |->
                 baseline_fit_predict(y, dates_for_baseline, has_dates, ts[j])]))

\* a selection that lets a candidate through on a tie with the one before it
Mut_SelectAlgoOnTies(base_mae, ridge_mae, hgb_mae, force_ml) ==
    LET a1 == IF ridge_mae <= base_mae THEN "ridge" ELSE "baseline_seasonal"
        m1 == IF ridge_mae <= base_mae THEN ridge_mae ELSE base_mae
        a2 == IF hgb_mae <= m1 THEN "hgb" ELSE a1
        m2 == IF hgb_mae <= m1 THEN hgb_mae ELSE m1
    IN  IF (~force_ml) /\ a2 # "baseline_seasonal" /\ 100 * m2 >= 98 * base_mae
        THEN [algo |-> "baseline_seasonal", mae |-> base_mae]
        ELSE [algo |-> a2, mae |-> m2]

\* the selection of _fit_one_target: the algorithm kept and its MAE
SelectAlgo(base_mae, ridge_mae, hgb_mae, force_ml) ==
    LET a1 == IF ridge_mae < base_mae THEN "ridge" ELSE "baseline_seasonal"
        m1 == IF ridge_mae < base_mae THEN ridge_mae ELSE base_mae
        a2 == IF hgb_mae < m1 THEN "hgb" ELSE a1
        m2 == IF hgb_mae < m1 THEN hgb_mae ELSE m1
    IN  IF (~force_ml) /\ a2 # "baseline_seasonal" /\ 100 * m2 >= 98 * base_mae
        THEN [algo |-> "baseline_seasonal", mae |-> base_mae]
        ELSE [algo |-> a2, mae |-> m2]

\* np.std(final_model.predict(X) - y)
ResidStdModel(m, X, y) ==
    IF Len(y) > 1
    THEN _std(List([r \in 1..Len(y) |-> Predict(m, X[r]).val - y[r]]))
    ELSE 0

\* np.std(tail - np.mean(tail)) for tail = y[-max(14, int(0.2 * len(y))):]
ResidStdTail(y) ==
    LET tail == LastN(y, Max2(14, Div(2 * Len(y), 10)))
    IN  IF Len(tail) > 1
        THEN _std(List([j \in 1..Len(tail) |-> tail[j] - _mean(tail)]))
        ELSE 0

\* def _fit_one_target(X, y, dates_for_baseline, force_ml).  What the library
\* computes (the walk-forward MAE of each family and the two final fits) is
\* the record fit = [ridge_mae, hgb_mae, ridge, hgb].
_fit_one_target(X, y, dates_for_baseline, has_dates, force_ml, fit) ==
    IF ~np
    THEN TrainedTarget("baseline_seasonal", NoToken, _std(y), _std(y), _std(y))
    ELSE IF Len(y) < 20
    THEN LET degenerate(s) == TrainedTarget("baseline_seasonal", NoToken, s, s, s)
         IN  degenerate(IF Len(y) > 1
                        THEN _std(List([j \in 1..Len(y) |-> y[j] - _mean(y)])) ELSE 0)
    ELSE LET selected(base_mae, best) ==
                 IF best.algo = "ridge"
                 THEN TrainedTarget("ridge", dumps_model(fit.ridge), best.mae, base_mae,
                                    ResidStdModel(fit.ridge, X, y))
                 ELSE IF best.algo = "hgb"
                 THEN TrainedTarget("hgb", dumps_model(fit.hgb), best.mae, base_mae,
                                    ResidStdModel(fit.hgb, X, y))
                 ELSE TrainedTarget("baseline_seasonal", NoToken, best.mae, base_mae,
                                    ResidStdTail(y))
             walked(base_mae) ==
                 selected(base_mae,
                          SelectAlgo(base_mae, fit.ridge_mae, fit.hgb_mae, force_ml))
         IN  walked(BaseMae(y, dates_for_baseline, has_dates))

----------------------------------------------------------------------------
(* Trainer: train_daily_sklearn and train_monthly_sklearn                  *)

\* one entry of history_tail (the "net" entry is income - expense)
DayRow(d, i, e) == [date |-> d, income |-> i, expense |-> e]

\* one entry of the monthly history ("balance" is income - expense_total)
MonthRow(ym, i, e) == [ym |-> ym, income |-> i, expense_total |-> e]

\* "targets": {} and "targets": {"income": ..., "expense": ...}
NoTargets ==
    [present |-> FALSE,
     income  |-> TrainedTarget("none", NoToken, 0, 0, 0),
     expense |-> TrainedTarget("none", NoToken, 0, 0, 0)]

Targets(t_inc, t_exp) == [present |-> TRUE, income |-> t_inc, expense |-> t_exp]

\* the dict a training call returns (trained_at is the clock's, not modelled)
Payload(basis, lags, warning, history, targets) ==
    [exc |-> "none", basis |-> basis, lags |-> lags, warning |-> warning,
     history |-> history, targets |-> targets]

\* a training call that raised
TrainRaised(x) ==
    [exc |-> x, basis |-> "none", lags |-> 0, warning |-> "none",
     history |-> <<>>, targets |-> NoTargets]

\* zip(dates[-n:], inc[-n:], exp[-n:]) as history_tail entries
HistoryTail(dates, inc, exp, n) ==
    LET ds == LastN(dates, n)
        is == LastN(inc, n)
        es == LastN(exp, n)
    IN  List([j \in 1..Len(ds) |-> DayRow(ds[j], is[j], es[j])])

\* a trainer that keeps the lag count it was asked for
Mut_DailyLagsAsAsked(lags, n) == lags

\* lags of train_daily_sklearn after lines 708-710
DailyLags(lags, n) ==
    LET l1 == Max2(3, Min2(lags, 30))
    IN  IF n <= l1 + 5 THEN Max2(3, Min2(l1, Max2(3, n \div 3))) ELSE l1

\* the library's outcome when no model is fitted
NoFit == [ridge_mae |-> 0, hgb_mae |-> 0, ridge |-> NoModel, hgb |-> NoModel]

\* def train_daily_sklearn(rows_daily_income_expense, lags, force_ml);
\* f_inc and f_exp are the library's outcomes for the two targets
train_daily_sklearn(rs, lags_req, force_ml, f_inc, f_exp) ==
    LET fitted(s, lags, X, dates_y) ==
            Payload("cash_daily_sklearn", lags, "none",
                    HistoryTail(s.dates, s.inc, s.exp, 90),
                    Targets(_fit_one_target(X, TargetsFrom(s.inc, lags),
                                            dates_y, TRUE, force_ml, f_inc),
                            _fit_one_target(X, TargetsFrom(s.exp, lags),
                                            dates_y, TRUE, force_ml, f_exp)))
        degenerate(s) ==
            Targets(TrainedTarget("baseline_seasonal", NoToken, 0, 0, _std(s.inc)),
                    TrainedTarget("baseline_seasonal", NoToken, 0, 0, _std(s.exp)))
        with_lags(s, lags) ==
            IF Len(s.dates) <= lags + 2
            THEN Payload("cash_daily_sklearn", lags, "Historico insuficiente",
                         HistoryTail(s.dates, s.inc, s.exp, 60), degenerate(s))
            ELSE IF ~np
            THEN Payload("cash_daily_sklearn", lags, "ML indisponivel",
                         HistoryTail(s.dates, s.inc, s.exp, 90), degenerate(s))
            ELSE fitted(s, lags, _make_supervised_daily(s.dates, s.inc, s.exp, lags),
                        SubSeq(s.dates, lags + 1, Len(s.dates)))
        filled(s) ==
            IF s.exc # "none" THEN TrainRaised(s.exc)
            ELSE IF s.dates = <<>>
            THEN Payload("cash_daily_sklearn", lags_req, "Sem historico diario.",
                         <<>>, NoTargets)
            ELSE with_lags(s, DailyLags(lags_req, Len(s.dates)))
    IN  filled(fill_daily_series(rs))

\* lags of train_monthly_sklearn after lines 1159-1161
MonthlyLags(lags, n) ==
    LET l1 == Max2(2, Min2(lags, 12))
    IN  IF n <= l1 + 2 THEN Max2(2, Min2(l1, Max2(2, n \div 3))) ELSE l1

\* the whole series as history entries
HistoryMonthly(yms, inc, exp) ==
    List([j \in 1..Len(yms) |-> MonthRow(yms[j], inc[j], exp[j])])

\* def train_monthly_sklearn(rows_monthly_income_expense, lags, force_ml)
train_monthly_sklearn(rs, lags_req, force_ml, f_inc, f_exp) ==
    LET fitted(s, lags, X) ==
            Payload("competencia_sklearn", lags, "none",
                    HistoryMonthly(s.dates, s.inc, s.exp),
                    Targets(_fit_one_target(X, TargetsFrom(s.inc, lags),
                                            <<>>, FALSE, force_ml, f_inc),
                            _fit_one_target(X, TargetsFrom(s.exp, lags),
                                            <<>>, FALSE, force_ml, f_exp)))
        degenerate(s) ==
            Targets(TrainedTarget("baseline_seasonal", NoToken, 0, 0, _std(s.inc)),
                    TrainedTarget("baseline_seasonal", NoToken, 0, 0, _std(s.exp)))
        with_lags(s, lags) ==
            IF Len(s.dates) <= lags + 1
            THEN Payload("competencia_sklearn", lags, "Historico insuficiente",
                         HistoryMonthly(s.dates, s.inc, s.exp), degenerate(s))
            ELSE IF ~np
            THEN Payload("competencia_sklearn", lags, "ML indisponivel",
                         HistoryMonthly(s.dates, s.inc, s.exp), degenerate(s))
            ELSE fitted(s, lags, _make_supervised_monthly(s.dates, s.inc, s.exp, lags))
        filled(s) ==
            IF s.exc # "none" THEN TrainRaised(s.exc)
            ELSE IF s.dates = <<>>
            THEN Payload("competencia_sklearn", lags_req, "Sem historico mensal.",
                         <<>>, NoTargets)
            ELSE with_lags(s, MonthlyLags(lags_req, Len(s.dates)))
    IN  filled(fill_monthly_series(rs))

----------------------------------------------------------------------------
(* Forecaster, daily: forecast_next_days_daily_v2                          *)

\* the body of _sort_unique_daily_hist over the stripped dates d and their
\* parsed values o: first[j] holds when entry j opens its date, last[j] is the
\* last entry with the date of j, rank[j] the place of j in the sorted list
SortedUnique(hist, d, o) ==
    LET n == Len(hist)
        first == List([j \in 1..n |->
                    d[j] # <<>> /\ \A j2 \in 1..(j - 1) : d[j2] # d[j]])
        last == List([j \in 1..n |->
                    CHOOSE j2 \in j..n :
                        d[j2] = d[j] /\ \A j3 \in (j2 + 1)..n : d[j3] # d[j]])
        less(a, b) == IF o[a] # NoDate THEN o[a] < o[b] ELSE StrLess(d[a], d[b])
        rank == List([j \in 1..n |->
                    Cardinality({j2 \in 1..n :
                        first[j2] /\ (less(j2, j) \/ (~less(j, j2) /\ j2 < j))})])
        count == Cardinality({j \in 1..n : first[j]})
        ordered(at) ==
            List([r \in 1..count |->
                DayRow(d[at[r]], hist[last[at[r]]].income, hist[last[at[r]]].expense)])
        mixed == \E a, b \in 1..n :
                    first[a] /\ first[b] /\ o[a] # NoDate /\ o[b] = NoDate
    IN  IF mixed THEN [exc |-> "TypeError", rows |-> <<>>]
        ELSE [exc |-> "none",
              rows |-> ordered(List([r \in 1..count |->
                          CHOOSE j \in 1..n : first[j] /\ rank[j] = r - 1]))]

\* def _sort_unique_daily_hist(hist): one entry per stripped date (the last
\* one wins, at the place of the first), ordered by the parsed date, or by the
\* text when no date parses; a list mixing both cannot be ordered (TypeError)
_sort_unique_daily_hist(hist) ==
    LET keyed(d) == SortedUnique(hist, d, List([j \in 1..Len(d) |-> _parse_ymd(d[j])]))
    IN  keyed(List([j \in 1..Len(hist) |-> Strip(hist[j].date)]))

\* zero days appended up to the anchor itself instead of the day before it
Mut_ZeroDaysThroughAnchor(dates, anchor_date) ==
    IF dates = <<>> THEN 0
    ELSE LET gap(adt, last) ==
                 IF adt = NoDate \/ last = NoDate THEN 0
                 ELSE Max2(0, adt - last)
         IN  gap(_parse_ymd(anchor_date), _parse_ymd(dates[Len(dates)]))

\* the zero days appended by _extend_series_until_anchor_with_zeros: how many
ZeroDays(dates, anchor_date) ==
    IF dates = <<>> THEN 0
    ELSE LET gap(adt, last) ==
                 IF adt = NoDate \/ last = NoDate THEN 0
                 ELSE Max2(0, (adt - 1) - last)
         IN  gap(_parse_ymd(anchor_date), _parse_ymd(dates[Len(dates)]))

\* def _extend_series_until_anchor_with_zeros(dates, inc_vals, exp_vals, anchor_date)
_extend_series_until_anchor_with_zeros(dates, inc_vals, exp_vals, anchor_date) ==
    LET padded(k, last) ==
            [dates |-> dates \o [j \in 1..k |-> Strftime(last + j)],
             inc   |-> inc_vals \o [j \in 1..k |-> 0],
             exp   |-> exp_vals \o [j \in 1..k |-> 0]]
    IN  padded(ZeroDays(dates, anchor_date), _parse_ymd(dates[Len(dates)]))

\* TargetState without the fallback of lines 918-921
Mut_TargetStateNoFallback(t, present) ==
    [algo  |-> IF ~np \/ ~present THEN "baseline_seasonal" ELSE t.algo,
     model |-> IF ~np \/ ~present THEN NoModel ELSE _safe_load_model(t.model_b64).val,
     std   |-> IF present THEN t.resid_std ELSE 0]

\* payload.get("targets", {}).get(name) or {}, then the reads with defaults:
\* algo or "baseline_seasonal", _safe_load_model(model_b64), resid_std or 0.0,
\* the fallback to the baseline when the model is missing, and the switch to
\* the baseline when numpy is missing
TargetState(t, present) ==
    LET algo0 == IF present THEN t.algo ELSE "baseline_seasonal"
        state(model) ==
            [algo  |-> IF ~np THEN "baseline_seasonal"
                       ELSE IF algo0 # "baseline_seasonal" /\ model = NoModel
                       THEN "baseline_seasonal" ELSE algo0,
             model |-> IF ~np THEN NoModel ELSE model,
             std   |-> IF present THEN t.resid_std ELSE 0]
    IN  state(IF present THEN _safe_load_model(t.model_b64).val ELSE NoModel)

\* def _predict_one(algo, model, baseline_hist_dates, baseline_hist_vals,
\* target_date, X); has_X is FALSE when X is None
_predict_one(algo, model, baseline_hist_dates, baseline_hist_vals, target_date, X, has_X) ==
    LET predicted(base) ==
            IF algo = "baseline_seasonal" THEN base
            ELSE IF model = NoModel \/ ~has_X THEN base
            ELSE IF Predict(model, X).exc # "none" THEN base
            ELSE Predict(model, X).val
    IN  predicted(_baseline_seasonal_predict_one(baseline_hist_dates,
                                                 baseline_hist_vals, target_date))

\* a prediction or a lower bound left as computed
Mut_NoClamp(x) == x

\* max(0.0, x): the clamp of a prediction and of a lower bound
ClampNonNeg(x) == Max2(0, x)

\* a horizon accepted whatever its value
Mut_HorizonUnchecked(h, hi) == TRUE

\* not (h < 1 or h > hi): the horizon check of both forecast entry points
HorizonInRange(h, hi) == h >= 1 /\ h <= hi

\* z * std with z = 1.28
ZTimes(std) == Div(128 * std, 100)

\* the feature row of the forecast step: feats + inc_lags + exp_lags + [...]
ForecastRowDaily(fdate, t_idx, inc_vals, exp_vals, eff_lags) ==
    _date_feats(fdate, t_idx)
    \o [k \in 1..eff_lags |-> NegIdx(inc_vals, k)]
    \o [k \in 1..eff_lags |-> NegIdx(exp_vals, k)]
    \o <<_rolling_mean(inc_vals, 7), _rolling_mean(inc_vals, 14),
         _rolling_mean(exp_vals, 7), _rolling_mean(exp_vals, 14),
         NegIdx(inc_vals, 1) - NegIdx(exp_vals, 1),
         _rolling_mean(NetOf(LastN(inc_vals, 30), LastN(exp_vals, 30)), 7)>>

\* anchor_date: Optional[str]
NoAnchor == [t |-> "none", s |-> <<>>]

Anchor(s) == [t |-> "str", s |-> s]

\* anchor_date or _today_ymd_local()
AnchorOrToday(anchor_date, today) ==
    IF anchor_date.t = "none" \/ anchor_date.s = <<>> THEN today ELSE anchor_date.s

\* the dict appended to preds by one step of the daily loop; without category
\* rows the whole expense is allocated to "Outros"
DailyPoint(fdate, inc_raw, exp_raw, inc_std, exp_std) ==
    LET inc_pred == ClampNonNeg(inc_raw)
        exp_pred == ClampNonNeg(exp_raw)
    IN  [date |-> fdate,
         income_pred  |-> inc_pred,
         expense_pred |-> exp_pred,
         net_pred     |-> inc_pred - exp_pred,
         income_low   |-> ClampNonNeg(inc_pred - ZTimes(inc_std)),
         income_high  |-> inc_pred + ZTimes(inc_std),
         expense_low  |-> ClampNonNeg(exp_pred - ZTimes(exp_std)),
         expense_high |-> exp_pred + ZTimes(exp_std),
         expense_by_category |-> [Outros |-> exp_pred]]

\* a step that takes a week of lags at least
Mut_EffLagsWeekFloor(lags, n_inc, n_exp) == Max2(7, Min2(Min2(lags, n_inc), Min2(n_exp, 30)))

\* eff_lags of a step of the daily loop:
\* max(3, min(lags, len(inc_vals), len(exp_vals), 30))
EffLags(lags, n_inc, n_exp) == Max2(3, Min2(Min2(lags, n_inc), Min2(n_exp, 30)))

\* the defensive adjustment of lags by forecast_next_days_daily_v2, for a
\* history of n days (lines 896-897)
DailyForecastLags(lags, n) ==
    IF n < Max2(3, lags) THEN Max2(3, Min2(lags, n - 1)) ELSE lags

\* the defensive adjustment of lags by forecast_next_months, for a history of
\* n months (lines 1252-1256)
MonthlyForecastLags(lags, n) ==
    IF n <= 2 THEN 2 ELSE Max2(2, Min2(lags, n - 1))

\* a loop that does not append its prediction to the working series
Mut_RecursionDropped(vals, pred) == vals

\* the recursion of the forecast loops: inc_vals.append(float(inc_pred)) and
\* exp_vals.append(float(exp_pred)) at the end of each step
Recursion(vals, pred) == Append(vals, pred)

\* the loop  for h in range(1, days + 1)  of forecast_next_days_daily_v2, from
\* step h on: the points produced and the extended expense series, or the
\* exception raised by a step
RECURSIVE DailyLoop(_, _, _, _, _, _, _, _, _, _)
DailyLoop(h, days, dates, inc_vals, exp_vals, lags, ti, te, last_dt, preds) ==
    IF h > days
    THEN [exc |-> "none", preds |-> preds, inc_vals |-> inc_vals, exp_vals |-> exp_vals]
    ELSE
      LET t_idx == (Len(dates) - 1) + h
          eff_lags == EffLags(lags, Len(inc_vals), Len(exp_vals))
          has_X == np /\ ((ti.algo # "baseline_seasonal" /\ ti.model # NoModel)
                          \/ (te.algo # "baseline_seasonal" /\ te.model # NoModel))
          appended(p) ==
              DailyLoop(h + 1, days, Append(dates, p.date),
                        Recursion(inc_vals, p.income_pred),
                        Recursion(exp_vals, p.expense_pred),
                        lags, ti, te, last_dt, Append(preds, p))
          point(fdate, X) ==
              DailyPoint(fdate,
                  _predict_one(ti.algo, ti.model, dates, inc_vals, fdate, X, has_X),
                  _predict_one(te.algo, te.model, dates, exp_vals, fdate, X, has_X),
                  ti.std, te.std)
          step(fdate) ==
              appended(point(fdate,
                  IF has_X
                  THEN ForecastRowDaily(fdate, t_idx, inc_vals, exp_vals, eff_lags)
                  ELSE <<>>))
      IN  IF ~HasNeg(inc_vals, eff_lags) \/ ~HasNeg(exp_vals, eff_lags)
          THEN [exc |-> "IndexError", preds |-> preds, inc_vals |-> inc_vals,
                exp_vals |-> exp_vals]
          ELSE step(Strftime(last_dt + h))

\* a risk that leaves the negative net out of the score
Mut_RiskNetNotScored(exp_vals, days, expense_total, net_total, inc_std, exp_std) ==
    LET hist_exp == LastN(exp_vals, 60)
        mu    == _mean(hist_exp)
        sigma == _std(hist_exp)
        a1 == sigma > 0 /\ Div(expense_total, days) > mu + sigma
        a2 == net_total < 0
        a3 == (inc_std + exp_std) > 0 /\ 10 * (inc_std + exp_std) > 6 * mu
        risk == (IF a1 THEN 3 ELSE 0) + (IF a3 THEN 2 ELSE 0)
    IN  [alerts |-> (IF a1 THEN <<"despesa_acima">> ELSE <<>>)
                    \o (IF a2 THEN <<"saldo_negativo">> ELSE <<>>)
                    \o (IF a3 THEN <<"incerteza_elevada">> ELSE <<>>),
         risk_score |-> Max2(0, Min2(10, risk))]

\* alerts and risk_score of forecast_next_days_daily_v2
RiskOf(exp_vals, days, expense_total, net_total, inc_std, exp_std) ==
    LET hist_exp == LastN(exp_vals, 60)
        mu    == _mean(hist_exp)
        sigma == _std(hist_exp)
        a1 == sigma > 0 /\ Div(expense_total, days) > mu + sigma
        a2 == net_total < 0
        a3 == (inc_std + exp_std) > 0 /\ 10 * (inc_std + exp_std) > 6 * mu
        risk == (IF a1 THEN 3 ELSE 0) + (IF a2 THEN 4 ELSE 0) + (IF a3 THEN 2 ELSE 0)
    IN  [alerts |-> (IF a1 THEN <<"despesa_acima">> ELSE <<>>)
                    \o (IF a2 THEN <<"saldo_negativo">> ELSE <<>>)
                    \o (IF a3 THEN <<"incerteza_elevada">> ELSE <<>>),
         risk_score |-> Max2(0, Min2(10, risk))]

\* what a forecast call returns, or the exception it raised
ForecastResult(basis, lags, inc_algo, exp_algo, anchor, last_date, horizon, series, top, alerts, risk) ==
    [exc |-> "none",
     meta |-> [basis |-> basis, lags |-> lags, income_algo |-> inc_algo,
               expense_algo |-> exp_algo, anchor_date |-> anchor,
               history_last_date |-> last_date],
     horizon |-> horizon,
     kpis |-> [income_pred_total  |-> SeqSum(List([j \in 1..Len(series) |-> series[j].income_pred])),
               expense_pred_total |-> SeqSum(List([j \in 1..Len(series) |-> series[j].expense_pred])),
               net_pred_total     |-> SeqSum(List([j \in 1..Len(series) |-> series[j].income_pred]))
                                      - SeqSum(List([j \in 1..Len(series) |-> series[j].expense_pred]))],
     series |-> series,
     top_categories |-> top,
     alerts |-> alerts,
     risk_score |-> risk]

ForecastRaised(x) ==
    [exc |-> x,
     meta |-> [basis |-> "none", lags |-> 0, income_algo |-> "none",
               expense_algo |-> "none", anchor_date |-> <<>>,
               history_last_date |-> <<>>],
     horizon |-> 0,
     kpis |-> [income_pred_total |-> 0, expense_pred_total |-> 0, net_pred_total |-> 0],
     series |-> <<>>,
     top_categories |-> <<>>,
     alerts |-> <<>>,
     risk_score |-> 0]

\* def forecast_next_days_daily_v2(payload, days, anchor_date=anchor_date),
\* rows_expense_by_category_daily left to its default; today is what
\* _today_ymd_local() returns
forecast_next_days_daily_v2(payload, days, anchor_date, today) ==
    IF ~HorizonInRange(days, 60) THEN ForecastRaised("ValueError")
    ELSE
      LET effective_anchor == Strip(AnchorOrToday(anchor_date, today))
          totalled(hist, ti, te, loop, income_total, expense_total) ==
              LET r == RiskOf(loop.exp_vals, days, expense_total,
                              income_total - expense_total, ti.std, te.std)
              IN  ForecastResult(payload.basis, payload.lags, ti.algo, te.algo,
                      effective_anchor, hist[Len(hist)].date, days, loop.preds,
                      <<[category |-> "Outros", amount |-> expense_total,
                         share |-> IF expense_total > 0 THEN 100 ELSE 0]>>,
                      r.alerts, r.risk_score)
          looped(hist, ti, te, loop) ==
              IF loop.exc # "none" THEN ForecastRaised(loop.exc)
              ELSE totalled(hist, ti, te, loop,
                      SeqSum(List([j \in 1..Len(loop.preds) |-> loop.preds[j].income_pred])),
                      SeqSum(List([j \in 1..Len(loop.preds) |-> loop.preds[j].expense_pred])))
          anchored(hist, lags, ext, ti, te, last_dt) ==
              IF last_dt = NoDate THEN ForecastRaised("ValueError")
              ELSE looped(hist, ti, te,
                          DailyLoop(1, days, ext.dates, ext.inc, ext.exp, lags, ti, te,
                                    last_dt, <<>>))
          extended(hist, lags, ext) ==
              anchored(hist, lags, ext,
                       TargetState(payload.targets.income, payload.targets.present),
                       TargetState(payload.targets.expense, payload.targets.present),
                       Strptime(ext.dates[Len(ext.dates)]))
          with_history(hist) ==
              extended(hist,
                       DailyForecastLags(payload.lags, Len(hist)),
                       _extend_series_until_anchor_with_zeros(
                           List([j \in 1..Len(hist) |-> hist[j].date]),
                           List([j \in 1..Len(hist) |-> hist[j].income]),
                           List([j \in 1..Len(hist) |-> hist[j].expense]),
                           effective_anchor))
          deduped(sorted) ==
              IF sorted.exc # "none" THEN ForecastRaised(sorted.exc)
              ELSE IF sorted.rows = <<>>
              THEN ForecastResult(payload.basis, 0, "none", "none",
                                  AnchorOrToday(anchor_date, today), <<>>, days, <<>>,
                                  <<>>, <<"sem_historico">>, 0)
              ELSE with_history(sorted.rows)
      IN  deduped(_sort_unique_daily_hist(payload.history))

----------------------------------------------------------------------------
(* Forecaster, monthly: forecast_next_months                               *)

\* a month addition that never carries into the year
Mut_AddMonthsNoCarry(ym, delta) == FmtYm(SplitYm(ym).y, SplitYm(ym).m + delta)

\* def _add_months(ym, delta)
_add_months(ym, delta) ==
    LET m0 == (SplitYm(ym).m - 1) + delta
    IN  FmtYm(SplitYm(ym).y + (m0 \div 12), (m0 % 12) + 1)

\* the feature row of the monthly forecast step
ForecastRowMonthly(fym, t_idx, inc_vals, exp_vals, lags) ==
    _ym_feats(fym, t_idx)
    \o [k \in 1..lags |-> NegIdx(inc_vals, k)]
    \o [k \in 1..lags |-> NegIdx(exp_vals, k)]
    \o <<_rolling_mean(inc_vals, 3), _rolling_mean(inc_vals, 6),
         _rolling_mean(exp_vals, 3), _rolling_mean(exp_vals, 6),
         NegIdx(inc_vals, 1) - NegIdx(exp_vals, 1),
         _rolling_mean(NetOf(LastN(inc_vals, 18), LastN(exp_vals, 18)), 3)>>

\* the prediction of one target in the monthly loop (lines 1306-1312)
MonthlyPredict(algo, model, vals, X, has_X) ==
    IF algo = "baseline_seasonal" \/ model = NoModel \/ ~has_X
    THEN _rolling_mean(vals, 3)
    ELSE IF Predict(model, X).exc # "none" THEN _rolling_mean(vals, 3)
    ELSE Predict(model, X).val

\* the dict appended to preds by one step of the monthly loop
MonthlyPoint(fym, inc_raw, exp_raw, inc_std, exp_std) ==
    LET inc_pred == ClampNonNeg(inc_raw)
        exp_pred == ClampNonNeg(exp_raw)
    IN  [ym |-> fym,
         income_pred  |-> inc_pred,
         expense_pred |-> exp_pred,
         balance_pred |-> inc_pred - exp_pred,
         income_low   |-> ClampNonNeg(inc_pred - ZTimes(inc_std)),
         income_high  |-> inc_pred + ZTimes(inc_std),
         expense_low  |-> ClampNonNeg(exp_pred - ZTimes(exp_std)),
         expense_high |-> exp_pred + ZTimes(exp_std)]

\* the loop  for h in range(1, horizon + 1)  of forecast_next_months
RECURSIVE MonthlyLoop(_, _, _, _, _, _, _, _, _, _)
MonthlyLoop(h, horizon, n_yms, inc_vals, exp_vals, lags, ti, te, last_ym, preds) ==
    IF h > horizon
    THEN [exc |-> "none", preds |-> preds, inc_vals |-> inc_vals, exp_vals |-> exp_vals]
    ELSE IF ~HasNeg(inc_vals, lags) \/ ~HasNeg(exp_vals, lags)
    THEN [exc |-> "IndexError", preds |-> preds, inc_vals |-> inc_vals,
          exp_vals |-> exp_vals]
    ELSE
      LET t_idx == (n_yms - 1) + h
          has_X == np /\ ((ti.algo # "baseline_seasonal" /\ ti.model # NoModel)
                          \/ (te.algo # "baseline_seasonal" /\ te.model # NoModel))
          appended(p) ==
              MonthlyLoop(h + 1, horizon, n_yms, Recursion(inc_vals, p.income_pred),
                          Recursion(exp_vals, p.expense_pred), lags, ti, te, last_ym,
                          Append(preds, p))
          point(fym, X) ==
              MonthlyPoint(fym,
                  MonthlyPredict(ti.algo, ti.model, inc_vals, X, has_X),
                  MonthlyPredict(te.algo, te.model, exp_vals, X, has_X),
                  ti.std, te.std)
          step(fym) ==
              appended(point(fym,
                  IF has_X THEN ForecastRowMonthly(fym, t_idx, inc_vals, exp_vals, lags)
                  ELSE <<>>))
      IN  step(_add_months(last_ym, h))

\* def forecast_next_months(payload, horizon)
forecast_next_months(payload, horizon) ==
    IF ~HorizonInRange(horizon, 24) THEN ForecastRaised("ValueError")
    ELSE
      LET looped(ti, te, loop) ==
              IF loop.exc # "none" THEN ForecastRaised(loop.exc)
              ELSE ForecastResult(payload.basis, payload.lags, ti.algo, te.algo,
                                  <<>>, <<>>, horizon, loop.preds, <<>>, <<>>, 0)
          with_targets(kept, lags, ti, te) ==
              looped(ti, te,
                     MonthlyLoop(1, horizon, Len(kept),
                                 List([j \in 1..Len(kept) |-> kept[j].income]),
                                 List([j \in 1..Len(kept) |-> kept[j].expense_total]),
                                 lags, ti, te, Strip(kept[Len(kept)].ym), <<>>))
          with_history(kept) ==
              IF payload.history = <<>> \/ kept = <<>>
              THEN ForecastResult(payload.basis, 0, "none", "none", <<>>, <<>>, horizon,
                                  <<>>, <<>>, <<>>, 0)
              ELSE with_targets(kept,
                       MonthlyForecastLags(payload.lags, Len(kept)),
                       TargetState(payload.targets.income, payload.targets.present),
                       TargetState(payload.targets.expense, payload.targets.present))
      IN  with_history(SelectSeq(payload.history, LAMBDA r : Strip(r.ym) # <<>>))

----------------------------------------------------------------------------
(* Specification Spec: a training call (daily or monthly) on at most       *)
(* MaxTrainRows rows, the stored payload possibly losing a model, and a    *)
(* forecast call on the stored payload                                     *)

MaxTrainRows == 2

MaxDays == 2

MaxHorizon == 2

Ymd(y, m, d) == Fmt04(y) \o <<"-">> \o Fmt02(m) \o <<"-">> \o Fmt02(d)

\* daily rows: three days at the start of January 2025 (one with a refund
\* booked as a negative expense), one day 25 January, one row with an int date
DailyTrainPool ==
    { Row(KStr(Ymd(2025, 1, 1)), ANum(300), ANum(100)),
      Row(KStr(Ymd(2025, 1, 2)), ANum(0), ANum(0 - 200)),
      Row(KStr(Ymd(2025, 1, 3)), ANum(200), ANum(400)),
      Row(KStr(Ymd(2025, 1, 25)), ANum(600), ANum(500)),
      Row(KInt, ANum(100), ANum(100)) }

\* monthly rows: March 2023, and the three months up to January 2025
MonthlyTrainPool ==
    { Row(KStr(FmtYm(2025, 1)), ANum(600), ANum(500)),
      Row(KStr(FmtYm(2024, 12)), ANum(300), ANum(100)),
      Row(KStr(FmtYm(2024, 11)), ANum(0), ANum(0 - 200)),
      Row(KStr(FmtYm(2023, 3)), ANum(100), ANum(100)),
      Row(KInt, ANum(100), ANum(100)) }

\* the lags a caller asks for
LagsPool == {3, 14}

\* what the library can produce for one target whose baseline MAE is base_mae:
\* ridge wins, the boosted trees win, no family beats the baseline, or ridge
\* beats it by less than the margin; k is the feature the fitted model reads
FitOutcomes(nfeat, k, base_mae) ==
    LET ridge == Model("ridge", nfeat, 0 - 3, 0, k)
        hgb   == Model("hgb", nfeat, 2, 1, k)
    IN  { [ridge_mae |-> 0, hgb_mae |-> base_mae + 1, ridge |-> ridge, hgb |-> hgb],
          [ridge_mae |-> base_mae + 1, hgb_mae |-> 0, ridge |-> ridge, hgb |-> hgb],
          [ridge_mae |-> base_mae + 1, hgb_mae |-> base_mae + 1, ridge |-> ridge, hgb |-> hgb],
          [ridge_mae |-> Max2(0, base_mae - 1), hgb_mae |-> base_mae, ridge |-> ridge, hgb |-> hgb] }

\* the outcomes for a target of a daily training call: the library is only
\* reached with numpy present and at least 20 supervised samples
FitChoicesDaily(rs, lags_req, target) ==
    LET reached(s, lags, y) ==
            IF np /\ s.exc = "none" /\ Len(s.dates) > lags + 2 /\ Len(y) >= 20
            THEN FitOutcomes(NFeatDaily(lags), 9,
                             BaseMae(y, SubSeq(s.dates, lags + 1, Len(s.dates)), TRUE))
            ELSE {NoFit}
        with_lags(s, lags) ==
            reached(s, lags, TargetsFrom(IF target = "income" THEN s.inc ELSE s.exp, lags))
        filled(s) == with_lags(s, DailyLags(lags_req, Len(s.dates)))
    IN  filled(fill_daily_series(rs))

FitChoicesMonthly(rs, lags_req, target) ==
    LET reached(s, lags, y) ==
            IF np /\ s.exc = "none" /\ Len(s.dates) > lags + 1 /\ Len(y) >= 20
            THEN FitOutcomes(NFeatMonthly(lags), 5, BaseMae(y, <<>>, FALSE))
            ELSE {NoFit}
        with_lags(s, lags) ==
            reached(s, lags, TargetsFrom(IF target = "income" THEN s.inc ELSE s.exp, lags))
        filled(s) == with_lags(s, MonthlyLags(lags_req, Len(s.dates)))
    IN  filled(fill_monthly_series(rs))

\* the arguments of a training call
TrainCall(gran, rs, lags_req, force_ml, f_inc, f_exp) ==
    [gran |-> gran, rows |-> rs, lags |-> lags_req, force_ml |-> force_ml,
     f_inc |-> f_inc, f_exp |-> f_exp, decayed |-> "none"]

\* the arguments of a forecast call
ForecastCall(horizon, anchor_date, today) ==
    [horizon |-> horizon, anchor_date |-> anchor_date, today |-> today]

Init ==
    /\ np \in BOOLEAN
    /\ pc = "start"
    /\ tr = TrainCall("none", <<>>, 0, FALSE, NoFit, NoFit)
    /\ trained = TrainRaised("not called")
    /\ fc = ForecastCall(0, NoAnchor, <<>>)
    /\ result = ForecastRaised("not called")
    /\ SeriesIdle
    /\ SerIdle
    /\ CallIdle

\* train_daily_sklearn(rows, lags, force_ml)
TrainDaily ==
    /\ pc = "start"
    /\ \E rs \in SeqsUpTo(DailyTrainPool, MaxTrainRows), lags_req \in LagsPool,
          force_ml \in BOOLEAN :
         \E f_inc \in FitChoicesDaily(rs, lags_req, "income"),
            f_exp \in FitChoicesDaily(rs, lags_req, "expense") :
           /\ tr' = TrainCall("daily", rs, lags_req, force_ml, f_inc, f_exp)
           /\ trained' = train_daily_sklearn(rs, lags_req, force_ml, f_inc, f_exp)
    /\ pc' = IF trained'.exc = "none" THEN "trained" ELSE "done"
    /\ UNCHANGED <<np, fc, result, seriesVars, serVars, callVars>>

\* train_monthly_sklearn(rows, lags, force_ml)
TrainMonthly ==
    /\ pc = "start"
    /\ \E rs \in SeqsUpTo(MonthlyTrainPool, MaxTrainRows), lags_req \in {2, 6},
          force_ml \in BOOLEAN :
         \E f_inc \in FitChoicesMonthly(rs, lags_req, "income"),
            f_exp \in FitChoicesMonthly(rs, lags_req, "expense") :
           /\ tr' = TrainCall("monthly", rs, lags_req, force_ml, f_inc, f_exp)
           /\ trained' = train_monthly_sklearn(rs, lags_req, force_ml, f_inc, f_exp)
    /\ pc' = IF trained'.exc = "none" THEN "trained" ELSE "done"
    /\ UNCHANGED <<np, fc, result, seriesVars, serVars, callVars>>

\* the stored payload is read back with the serialized model of one target
\* missing, or cut short so that it no longer loads
ModelDecays ==
    /\ pc = "trained"
    /\ tr.decayed = "none"
    /\ trained.targets.present
    /\ \E target \in {"income", "expense"}, kind \in {"absent", "corrupt"} :
         LET t == IF target = "income" THEN trained.targets.income
                  ELSE trained.targets.expense
             tok == IF kind = "absent" THEN NoToken
                    ELSE Token(SubSeq(t.model_b64.s, 1, 8))
             t2 == [t EXCEPT !.model_b64 = tok]
         IN  /\ t.model_b64 # NoToken
             /\ trained' = IF target = "income"
                           THEN [trained EXCEPT !.targets.income = t2]
                           ELSE [trained EXCEPT !.targets.expense = t2]
             /\ tr' = [tr EXCEPT !.decayed = target]
    /\ UNCHANGED <<np, pc, fc, result, seriesVars, serVars, callVars>>

\* what _today_ymd_local() can return
TodayPool == {Ymd(2025, 1, 31)}

\* the anchor dates a caller passes: none, the day after the last day of
\* January's history (with blanks around it), a day inside the history, and a
\* text that is no date
AnchorPool ==
    { NoAnchor,
      Anchor(<<" ">> \o Ymd(2025, 1, 26) \o <<" ">>),
      Anchor(Ymd(2025, 1, 2)),
      Anchor(Y2025 \o <<"-", "1", "3", "-", "0", "1">>) }

\* a forecast whose working lists are the payload's own
Mut_WorkingSeriesShared == TRUE

\* whether the lists a forecast call appends to are objects of the payload.
\* They are not: hist holds dicts built by the call (tmp[d] = {...}, line
\* 141), and dates, inc_vals, exp_vals (yms, inc_vals, exp_vals) are lists
\* built by the call (lines 891-893, 1240-1242)
WorkingSeriesShared == FALSE

\* the payload as the daily forecast call leaves it: had the working lists
\* been the payload's, its history would be the sorted history, the zero days
\* and the points produced
PayloadAfterDaily(p, days, anchor, res) ==
    IF ~WorkingSeriesShared THEN p
    ELSE IF ~HorizonInRange(days, 60) THEN p
    ELSE IF _sort_unique_daily_hist(p.history).exc # "none" THEN p
    ELSE LET written(ext) ==
                 [p EXCEPT !.history =
                     List([j \in 1..Len(ext.dates) |->
                             DayRow(ext.dates[j], ext.inc[j], ext.exp[j])])
                     \o List([j \in 1..Len(res.series) |->
                             DayRow(res.series[j].date, res.series[j].income_pred,
                                    res.series[j].expense_pred)])]
             sorted(hist) ==
                 written(_extend_series_until_anchor_with_zeros(
                             List([j \in 1..Len(hist) |-> hist[j].date]),
                             List([j \in 1..Len(hist) |-> hist[j].income]),
                             List([j \in 1..Len(hist) |-> hist[j].expense]),
                             anchor))
         IN  sorted(_sort_unique_daily_hist(p.history).rows)

\* the payload as the monthly forecast call leaves it
PayloadAfterMonthly(p, horizon, res) ==
    IF ~WorkingSeriesShared THEN p
    ELSE IF ~HorizonInRange(horizon, 24) THEN p
    ELSE [p EXCEPT !.history =
             p.history \o List([j \in 1..Len(res.series) |->
                 MonthRow(res.series[j].ym, res.series[j].income_pred,
                          res.series[j].expense_pred)])]

\* forecast_next_days_daily_v2(payload, days, anchor_date=anchor_date)
ForecastDaily ==
    /\ pc = "trained"
    /\ tr.gran = "daily"
    /\ \E days \in {0, 61} \cup 1..MaxDays, anchor_date \in AnchorPool, today \in TodayPool :
         /\ fc' = ForecastCall(days, anchor_date, today)
         /\ result' = forecast_next_days_daily_v2(trained, days, anchor_date, today)
         /\ trained' = PayloadAfterDaily(trained, days,
                            Strip(AnchorOrToday(anchor_date, today)), result')
    /\ pc' = "done"
    /\ UNCHANGED <<np, tr, seriesVars, serVars, callVars>>

\* forecast_next_months(payload, horizon)
ForecastMonthly ==
    /\ pc = "trained"
    /\ tr.gran = "monthly"
    /\ \E horizon \in {0, 25} \cup 1..MaxHorizon :
         /\ fc' = ForecastCall(horizon, NoAnchor, <<>>)
         /\ result' = forecast_next_months(trained, horizon)
         /\ trained' = PayloadAfterMonthly(trained, horizon, result')
    /\ pc' = "done"
    /\ UNCHANGED <<np, tr, seriesVars, serVars, callVars>>

Next == TrainDaily \/ TrainMonthly \/ ModelDecays \/ ForecastDaily \/ ForecastMonthly

Spec == Init /\ [][Next]_vars

----------------------------------------------------------------------------
(* Claims about the forecast calls (checked under Spec)                    *)

\* a forecast call was made on a payload that a training call returned
Forecasted == pc = "done" /\ trained.exc = "none"

DailyCall == Forecasted /\ tr.gran = "daily"

MonthlyCall == Forecasted /\ tr.gran = "monthly"

\* the payload is the one the training call returned, untouched
AsTrained == tr.decayed = "none"

AnchorValidOrAbsent ==
    \/ fc.anchor_date.t = "none"
    \/ _parse_ymd(Strip(fc.anchor_date.s)) # NoDate

\* C1: for every payload returned by train_daily_sklearn (the no-data and the
\* insufficient-history payloads included), every horizon in [1,60] and every
\* valid or absent anchor date, forecast_next_days_daily_v2 returns a result
\* and does not raise.
C1_DailyForecastNeverRaises ==
    (DailyCall /\ AsTrained /\ fc.horizon \in 1..60 /\ AnchorValidOrAbsent) =>
        result.exc = "none"

\* C2: for every payload returned by train_monthly_sklearn (the no-data and
\* the single-month payloads included) and every horizon in [1,24],
\* forecast_next_months returns a result and does not raise.
C2_MonthlyForecastNeverRaises ==
    (MonthlyCall /\ AsTrained /\ fc.horizon \in 1..24) => result.exc = "none"

\* C3: in every forecast result, daily or monthly, every point of the series
\* has income_pred >= 0, expense_pred >= 0, income_low >= 0 and
\* expense_low >= 0.
C3_NonNegative ==
    (Forecasted /\ result.exc = "none") =>
        \A j \in 1..Len(result.series) :
            /\ result.series[j].income_pred >= 0
            /\ result.series[j].expense_pred >= 0
            /\ result.series[j].income_low >= 0
            /\ result.series[j].expense_low >= 0

\* C3 witness: a two-step daily forecast in which the ridge model of income
\* predicts a negative value at both steps, and the lower bound of expense
\* would be below zero at the second step
W3_NegativeClamped ==
    /\ DailyCall /\ AsTrained /\ result.exc = "none"
    /\ Len(result.series) = 2
    /\ result.meta.income_algo = "ridge"
    /\ tr.f_inc.ridge.w0 < 0 /\ tr.f_inc.ridge.w1 = 0
    /\ result.series[1].income_pred = 0 /\ result.series[2].income_pred = 0
    /\ result.series[2].expense_pred < ZTimes(trained.targets.expense.resid_std)
    /\ result.series[2].expense_low = 0

\* C7: a daily forecast with days outside [1,60] and a monthly forecast with
\* horizon outside [1,24] raise ValueError, whatever the payload and the
\* anchor, and nothing is returned for a clamped horizon; a call with the
\* horizon in range and a non-empty history that returns, returns a series of
\* exactly horizon points.
C7_HorizonValidated ==
    /\ (DailyCall /\ fc.horizon \notin 1..60) =>
          result.exc = "ValueError" /\ result.series = <<>>
    /\ (MonthlyCall /\ fc.horizon \notin 1..24) =>
          result.exc = "ValueError" /\ result.series = <<>>
    /\ (DailyCall /\ fc.horizon \in 1..60) => result.exc # "ValueError"
    /\ (MonthlyCall /\ fc.horizon \in 1..24) => result.exc # "ValueError"
    /\ (Forecasted /\ result.exc = "none" /\ trained.history # <<>>) =>
          Len(result.series) = fc.horizon /\ result.horizon = fc.horizon

\* C7 witness: days = 61 was rejected on a payload with a history, and
\* (W7_FullHorizon) a two-day forecast returned two points
W7_Rejected ==
    /\ DailyCall /\ fc.horizon = 61 /\ trained.history # <<>>
    /\ result.exc = "ValueError"

W7_FullHorizon ==
    /\ DailyCall /\ fc.horizon = 2 /\ Len(result.series) = 2

\* the target is tagged with a model family but its model is absent or does
\* not load
LoadFails(t) ==
    t.algo # "baseline_seasonal" /\ _safe_load_model(t.model_b64).val = NoModel

\* the payload with one target tagged baseline_seasonal and without a model
AsBaseline(p, target) ==
    IF target = "income"
    THEN [p EXCEPT !.targets.income.algo = "baseline_seasonal",
                   !.targets.income.model_b64 = NoToken]
    ELSE [p EXCEPT !.targets.expense.algo = "baseline_seasonal",
                   !.targets.expense.model_b64 = NoToken]

\* the forecast call of the state, made on payload p
ForecastOf(p) ==
    IF tr.gran = "daily"
    THEN forecast_next_days_daily_v2(p, fc.horizon, fc.anchor_date, fc.today)
    ELSE forecast_next_months(p, fc.horizon)

\* C8: in a forecast call, a target tagged with a non-baseline algorithm whose
\* model is absent or fails to load runs as baseline_seasonal for the whole
\* horizon (the result is the one of the payload tagging it baseline_seasonal)
\* and meta reports baseline_seasonal for it; the algorithm of a target whose
\* model loads is the payload's.
C8_FallbackPerTarget ==
    (Forecasted /\ result.exc = "none" /\ result.series # <<>>) =>
        /\ LoadFails(trained.targets.income) =>
              /\ result.meta.income_algo = "baseline_seasonal"
              /\ result = ForecastOf(AsBaseline(trained, "income"))
        /\ LoadFails(trained.targets.expense) =>
              /\ result.meta.expense_algo = "baseline_seasonal"
              /\ result = ForecastOf(AsBaseline(trained, "expense"))
        /\ (np /\ ~LoadFails(trained.targets.income)) =>
              result.meta.income_algo = trained.targets.income.algo
        /\ (np /\ ~LoadFails(trained.targets.expense)) =>
              result.meta.expense_algo = trained.targets.expense.algo

\* C8 witness: the model of income was cut short in storage, the one of
\* expense loads; income ran as the baseline and expense as boosted trees
W8_OneTargetFellBack ==
    /\ DailyCall /\ result.exc = "none" /\ Len(result.series) = 2
    /\ tr.decayed = "income"
    /\ trained.targets.income.algo = "ridge"
    /\ trained.targets.income.model_b64 # NoToken
    /\ result.meta.income_algo = "baseline_seasonal"
    /\ result.meta.expense_algo = "hgb"

----------------------------------------------------------------------------
(* Claims about the anchor of the daily forecast (checked under Spec)      *)

\* the history of the payload as the forecast reads it (deduplicated, sorted)
SortedHist == _sort_unique_daily_hist(trained.history).rows

\* (anchor_date or _today_ymd_local()).strip() of the call of the state
EffectiveAnchor == Strip(AnchorOrToday(fc.anchor_date, fc.today))

\* the last day of the history, as an ordinal
HistLast == Strptime(SortedHist[Len(SortedHist)].date)

\* k: the days from the last day of the history to the anchor
AnchorGap == Strptime(EffectiveAnchor) - HistLast

\* the series the forecast loop starts from, for the history hist
ExtendedFrom(hist, anchor) ==
    _extend_series_until_anchor_with_zeros(
        List([j \in 1..Len(hist) |-> hist[j].date]),
        List([j \in 1..Len(hist) |-> hist[j].income]),
        List([j \in 1..Len(hist) |-> hist[j].expense]),
        anchor)

Extended == ExtendedFrom(SortedHist, EffectiveAnchor)

\* ext is hist followed by the k-1 days after last, each with zero amounts
ExtendedByZeros(hist, last, k, ext) ==
    /\ Len(ext.dates) = Len(hist) + k - 1
    /\ Len(ext.inc) = Len(hist) + k - 1
    /\ Len(ext.exp) = Len(hist) + k - 1
    /\ \A j \in 1..Len(hist) :
          /\ ext.dates[j] = hist[j].date
          /\ ext.inc[j] = hist[j].income
          /\ ext.exp[j] = hist[j].expense
    /\ \A j \in 1..(k - 1) :
          /\ ext.dates[Len(hist) + j] = Strftime(last + j)
          /\ ext.inc[Len(hist) + j] = 0
          /\ ext.exp[Len(hist) + j] = 0

\* C11: when the anchor date lies k >= 1 days after the last day of the
\* history, the series is extended by exactly the k-1 days last+1 .. anchor-1,
\* each with income 0 and expense 0, the historical dates and values are left
\* as they were, and the first point of a returned forecast is dated at the
\* anchor.
C11_AnchorExtension ==
    (/\ DailyCall /\ trained.history # <<>> /\ fc.horizon \in 1..60
     /\ Strptime(EffectiveAnchor) # NoDate /\ AnchorGap >= 1) =>
        /\ ExtendedByZeros(SortedHist, HistLast, AnchorGap, Extended)
        /\ result.exc = "none" =>
              /\ result.series[1].date = Strftime(Strptime(EffectiveAnchor))
              /\ result.meta.history_last_date = Strftime(HistLast)

\* C11 witness: no anchor passed, today 30 days after the single day of the
\* history: 29 zero days, first point dated today
W11_ThirtyDaysAfter ==
    /\ DailyCall /\ result.exc = "none" /\ fc.anchor_date = NoAnchor
    /\ Len(SortedHist) = 1 /\ AnchorGap = 30
    /\ Len(Extended.dates) = 30
    /\ Extended.inc[1] = 300 /\ Extended.inc[30] = 0
    /\ result.series[1].date = Ymd(2025, 1, 31)

\* C11 witness (k = 1): the anchor is the day after a 25-day history, nothing
\* is appended and the first point is dated at the anchor
W11_DayAfter ==
    /\ DailyCall /\ result.exc = "none" /\ Len(SortedHist) = 25
    /\ AnchorGap = 1 /\ Len(Extended.dates) = 25
    /\ result.series[1].date = Ymd(2025, 1, 26)

\* the caller passed an anchor that is no YYYY-MM-DD date
AnchorMalformed ==
    /\ fc.anchor_date.t = "str"
    /\ Strip(fc.anchor_date.s) # <<>>
    /\ _parse_ymd(Strip(fc.anchor_date.s)) = NoDate

\* C12: a daily forecast call whose anchor is no valid YYYY-MM-DD date is
\* rejected with a validation error (ValueError): the anchor is not ignored
\* and no successful result carries the malformed anchor in its meta.
C12_MalformedAnchorRejected ==
    (DailyCall /\ fc.horizon \in 1..60 /\ AnchorMalformed) =>
        result.exc = "ValueError"

----------------------------------------------------------------------------
(* Claims about the training calls (checked under Spec)                    *)

\* a training call was made
Trained == pc # "start"

\* both targets of the payload are present and tagged baseline_seasonal,
\* without a model
BaselineOnly(p) ==
    /\ p.targets.present
    /\ p.targets.income.algo = "baseline_seasonal"
    /\ p.targets.income.model_b64 = NoToken
    /\ p.targets.expense.algo = "baseline_seasonal"
    /\ p.targets.expense.model_b64 = NoToken

\* C13: without the regression runtime, train_daily_sklearn raises no
\* exception, whatever the rows, and the payload it returns has
\* targets.income.algo = targets.expense.algo = "baseline_seasonal".
C13_NoRuntimeBaseline ==
    (Trained /\ tr.gran = "daily" /\ AsTrained /\ ~np) =>
        /\ trained.exc = "none"
        /\ trained.targets.present
        /\ trained.targets.income.algo = "baseline_seasonal"
        /\ trained.targets.expense.algo = "baseline_seasonal"

\* the run is degenerate: no valid rows, fewer than 20 supervised samples
\* (a history too short to be fitted included), or no numeric runtime
DegenerateRun ==
    \/ ~np
    \/ trained.history = <<>>
    \/ Len(trained.history) - trained.lags < 20

\* C14: a training call, daily or monthly, always returns a payload; when the
\* run is degenerate the payload is baseline-only (no fitted model in it) and
\* carries a warning.
C14_DegenerateWarned ==
    (Trained /\ AsTrained) =>
        /\ trained.exc = "none"
        /\ DegenerateRun =>
              /\ (~trained.targets.present \/ BaselineOnly(trained))
              /\ trained.warning # "none"

----------------------------------------------------------------------------
(* Selector: the model selection of _fit_one_target on its own             *)

\* walk-forward MAEs the three candidates can come out with; 49/50 and
\* 98/100 are candidates exactly 2% better than the baseline
MaePool == {0, 49, 50, 51, 98, 100}

InitSelector ==
    /\ np = TRUE
    /\ u_pc = "input"
    /\ u_in \in [base_mae : MaePool, ridge_mae : MaePool, hgb_mae : MaePool,
                 force_ml : BOOLEAN]
    /\ u_out = <<>>
    /\ SeriesIdle
    /\ SerIdle
    /\ MainIdle

\* lines 444-460 of _fit_one_target(X, y, dates_for_baseline, force_ml)
Select ==
    /\ u_pc = "input"
    /\ u_pc' = "SelectAlgo"
    /\ u_out' = SelectAlgo(u_in.base_mae, u_in.ridge_mae, u_in.hgb_mae, u_in.force_ml)
    /\ UNCHANGED <<np, u_in, seriesVars, serVars, mainVars>>

NextSelector == Select

SpecSelector == InitSelector /\ [][NextSelector]_vars

\* the MAE of a candidate in a selection
MaeOf(in, algo) ==
    CASE algo = "ridge" -> in.ridge_mae
      [] algo = "hgb" -> in.hgb_mae
      [] OTHER -> in.base_mae

Candidates == {"baseline_seasonal", "ridge", "hgb"}

\* algo has a MAE no candidate beats
Lowest(in, algo) == \A c \in Candidates : MaeOf(in, algo) <= MaeOf(in, c)

\* algo has a MAE below every other candidate's
StrictlyLowest(in, algo) == \A c \in Candidates \ {algo} : MaeOf(in, algo) < MaeOf(in, c)

\* the MAE of algo is at least 2% better than the baseline's: mae <= 0.98 * base
TwoPercentBetter(in, algo) == 100 * MaeOf(in, algo) <= 98 * in.base_mae

\* C15: without the force flag an ML candidate (ridge or hgb) is the selected
\* algorithm exactly when it has the lowest MAE and that MAE is at most 0.98
\* times the baseline MAE, otherwise baseline_seasonal is selected; with the
\* force flag the candidate with the lowest MAE is selected whatever the margin.
\* Ties in MAE may be broken either way.
C15_SelectionPolicy ==
    u_pc = "SelectAlgo" =>
        /\ u_out.algo \in Candidates
        /\ u_out.mae = MaeOf(u_in, u_out.algo)
        /\ Lowest(u_in, u_out.algo) \/ u_out.algo = "baseline_seasonal"
        /\ ~u_in.force_ml =>
              /\ u_out.algo # "baseline_seasonal" => TwoPercentBetter(u_in, u_out.algo)
              /\ \A c \in {"ridge", "hgb"} :
                    StrictlyLowest(u_in, c) /\ TwoPercentBetter(u_in, c) => u_out.algo = c
        /\ u_in.force_ml =>
              /\ Lowest(u_in, u_out.algo)
              /\ \A c \in Candidates : StrictlyLowest(u_in, c) => u_out.algo = c

----------------------------------------------------------------------------
(* WalkForward: the three validation walks of _fit_one_target on their own *)

\* the supervised sample counts walked: 20 is the fewest _fit_one_target
\* validates at all (line 378)
MinSamples == 20

MaxSamples == 21

\* lags of the series walked (the least train_daily_sklearn uses)
WalkLags == 3

\* a daily series of n days from 2025-01-01 on: a weekly income pattern and a
\* five-day expense pattern, with the amounts of day p (1-based) replaced by v
WalkSeries(n, p, v) ==
    [dates |-> DaySeq(Strptime(Ymd(2025, 1, 1)), Strptime(Ymd(2025, 1, 1)) + n - 1),
     inc |-> List([j \in 1..n |-> IF j = p THEN v ELSE 100 * (j % 7)]),
     exp |-> List([j \in 1..n |-> IF j = p THEN v + 10 ELSE 50 * (j % 5)])]

\* the arguments of a validation: the filled series, the lag count, the target
\* and whether dates_for_baseline is given
WalkInputs ==
    { [series |-> WalkSeries(WalkLags + n, p, v), lags |-> WalkLags,
       target |-> tg, has_dates |-> hd] :
         n \in MinSamples..MaxSamples, p \in 1..(WalkLags + MaxSamples),
         v \in {5000}, tg \in {"income", "expense"}, hd \in BOOLEAN }

\* X, y and dates_y as train_daily_sklearn hands them to _fit_one_target
WalkX(in) == _make_supervised_daily(in.series.dates, in.series.inc, in.series.exp, in.lags)

WalkY(in) ==
    TargetsFrom(IF in.target = "income" THEN in.series.inc ELSE in.series.exp, in.lags)

WalkDatesY(in) == TargetsFrom(in.series.dates, in.lags)

\* a walk that hands the candidate the sample of step t as well
Mut_WalkViewThroughT(X, y, t) ==
    [Xtr |-> FirstN(X, t + 1), ytr |-> FirstN(y, t + 1), Xte |-> X[t + 1]]

\* what _walk_forward_mae hands to fit_predict_fn at step t:
\* Xtr, ytr = X[:t], y[:t] and Xte = X[t:t + 1]
WalkView(X, y, t) ==
    [Xtr |-> FirstN(X, t), ytr |-> FirstN(y, t), Xte |-> X[t + 1]]

\* one walk of _walk_forward_mae: for each step, in the order of the loop, the
\* step, what the candidate was handed and, for the baseline, what it predicted
WalkOf(X, y, dates_y, has_dates, ts) ==
    List([j \in 1..Len(ts) |->
        [t |-> ts[j],
         seen |-> WalkView(X, y, ts[j]),
         base |-> baseline_fit_predict(y, dates_y, has_dates, ts[j])]])

\* the walks of _fit_one_target (lines 390-442): the same n_start and n_steps
\* for the baseline, ridge and hgb
WalkLog(in) ==
    LET walked(walk) == [baseline_seasonal |-> walk, ridge |-> walk, hgb |-> walk]
    IN  walked(WalkOf(WalkX(in), WalkY(in), WalkDatesY(in), in.has_dates,
                      WalkSteps(Len(WalkY(in)), Len(WalkY(in)) - NVal(Len(WalkY(in))),
                                NVal(Len(WalkY(in))))))

InitWalkForward ==
    /\ np = TRUE
    /\ u_pc = "input"
    /\ u_in \in WalkInputs
    /\ u_out = <<>>
    /\ SeriesIdle
    /\ SerIdle
    /\ MainIdle

\* the walk-forward validations of _fit_one_target(X, y, dates_for_baseline, force_ml)
Walk ==
    /\ u_pc = "input"
    /\ u_pc' = "walked"
    /\ u_out' = WalkLog(u_in)
    /\ UNCHANGED <<np, u_in, seriesVars, serVars, mainVars>>

NextWalkForward == Walk

SpecWalkForward == InitWalkForward /\ [][NextWalkForward]_vars

\* the series of a validation with every amount of 0-based index >= i and every
\* date of index > i replaced: what is left is what precedes step t = i - lags,
\* and the date of the step itself
Hidden(s, i) ==
    [dates |-> List([j \in 1..Len(s.dates) |->
                        IF j <= i + 1 THEN s.dates[j] ELSE Ymd(1999, 12, 31)]),
     inc |-> List([j \in 1..Len(s.inc) |-> IF j <= i THEN s.inc[j] ELSE 0 - 1]),
     exp |-> List([j \in 1..Len(s.exp) |-> IF j <= i THEN s.exp[j] ELSE 0 - 1])]

\* the arguments of a validation with everything from step t on hidden
HiddenFrom(in, t) == [in EXCEPT !.series = Hidden(in.series, in.lags + t)]

\* the step of a walk sees what it would see with everything from t on hidden
CausalStep(e, X, y, dates_y, has_dates) ==
    /\ e.seen = WalkView(X, y, e.t)
    /\ e.base = baseline_fit_predict(y, dates_y, has_dates, e.t)
    /\ Len(e.seen.Xtr) = e.t
    /\ Len(e.seen.ytr) = e.t

\* the steps of a walk, in the order visited
StepsOf(walk) == List([j \in 1..Len(walk) |-> walk[j].t])

\* C16: walk-forward validation is strictly causal for every candidate, the
\* baseline included: what the candidate is fitted on and predicts from at
\* step t (and what the baseline predicts) is unchanged when every amount of
\* index >= t and every date after t is replaced, it holds exactly the t
\* samples before t, and the three candidates visit the same steps in
\* increasing order.
C16_WalkForwardCausal ==
    u_pc = "walked" =>
        /\ \A c \in Candidates : \A j \in 1..Len(u_out[c]) :
              CausalStep(u_out[c][j],
                         WalkX(HiddenFrom(u_in, u_out[c][j].t)),
                         WalkY(HiddenFrom(u_in, u_out[c][j].t)),
                         WalkDatesY(HiddenFrom(u_in, u_out[c][j].t)),
                         u_in.has_dates)
        /\ \A c \in Candidates :
              /\ StepsOf(u_out[c]) = StepsOf(u_out.baseline_seasonal)
              /\ \A j \in 1..(Len(u_out[c]) - 1) : u_out[c][j].t < u_out[c][j + 1].t

\* a validation of 21 samples was walked in ten steps from sample 11 on, with
\* dates for the baseline, and the amount of the first step's own day (day 15
\* of the series) is one the hidden series does not have
W16_TenStepsWalked ==
    /\ u_pc = "walked"
    /\ u_in.has_dates
    /\ Len(WalkY(u_in)) = 21
    /\ StepsOf(u_out.ridge) = <<11, 12, 13, 14, 15, 16, 17, 18, 19, 20>>
    /\ u_in.series.inc[15] = 5000
    /\ Len(u_out.hgb[1].seen.ytr) = 11
    /\ u_out.baseline_seasonal[2].base > 0

----------------------------------------------------------------------------
(* CategoryAllocator: allocate_expense_to_categories on its own            *)
(* Amounts and shares are fractions [n, d] with d > 0, not rounded.        *)

Frac(n, d) == [n |-> n, d |-> d]

\* a < b, a <= b and a = b for fractions
FracLess(a, b) == a.n * b.d < b.n * a.d

FracLeq(a, b) == a.n * b.d <= b.n * a.d

FracEq(a, b) == a.n * b.d = b.n * a.d

\* the sum of the fractions of a sequence
RECURSIVE FracSum(_)
FracSum(s) ==
    IF s = <<>> THEN Frac(0, 1)
    ELSE LET add(a, b) == IF a.d = b.d THEN Frac(a.n + b.n, a.d)
                          ELSE Frac(a.n * b.d + b.n * a.d, a.d * b.d)
         IN  add(s[1], FracSum(Tail(s)))

\* the most categories a profile has
MaxCats == 3

CategoryNames == <<"Moradia", "Mercado", "Lazer", "Saude">>

\* the weights of a profile: a refund-heavy category (negative), an empty
\* one, and the weights 100 and 300
WeightPool == {0 - 100, 0, 100, 300}

\* cat_weights: a dict, as the sequence of its items in insertion order
ProfilePool ==
    UNION { { List([j \in 1..n |-> [category |-> CategoryNames[j], w |-> ws[j]]]) :
                ws \in [1..n -> WeightPool] } : n \in 0..MaxCats }

\* the item of a default allocation
DefaultBucket(expense_value) ==
    [alloc |-> <<[category |-> "Outros", amount |-> Frac(expense_value, 1)]>>,
     top |-> <<[category |-> "Outros", amount |-> Frac(expense_value, 1),
                share |-> Frac(1, 1)]>>]

\* an allocation that takes the weights as they are
Mut_AllocUnclamped(w, total_w, expense_value) == Frac(expense_value * w, total_w)

\* alloc[cat] = expense_value * (max(0.0, w) / total_w)
AllocOne(w, total_w, expense_value) == Frac(expense_value * Max2(0, w), total_w)

\* sorted(alloc.items(), key=lambda kv: kv[1], reverse=True): a stable sort,
\* items of equal amount keep their order
SortedByAmountDesc(items) ==
    LET n == Len(items)
        rank(j) == 1 + Cardinality({i \in 1..n :
                        \/ FracLess(items[j].amount, items[i].amount)
                        \/ FracEq(items[i].amount, items[j].amount) /\ i < j})
    IN  List([r \in 1..n |-> items[CHOOSE j \in 1..n : rank(j) = r]])

\* a reported list that is cut at top_k without the floor of one
Mut_TopKNoFloor(items, top_k, expense_value) ==
    List([j \in 1..Min2(Max2(0, top_k), Len(items)) |->
        [category |-> items[j].category, amount |-> items[j].amount,
         share |-> IF expense_value > 0
                   THEN Frac(items[j].amount.n, items[j].amount.d * expense_value)
                   ELSE Frac(0, 1)]])

\* the loop over items[:max(1, int(top_k))]
TopOf(items, top_k, expense_value) ==
    List([j \in 1..Min2(Max2(1, top_k), Len(items)) |->
        [category |-> items[j].category, amount |-> items[j].amount,
         share |-> IF expense_value > 0
                   THEN Frac(items[j].amount.n, items[j].amount.d * expense_value)
                   ELSE Frac(0, 1)]])

\* def allocate_expense_to_categories(expense_value, cat_weights, top_k)
allocate_expense_to_categories(expense_value, cat_weights, top_k) ==
    LET allocated(ev, total_w) ==
            IF cat_weights = <<>> THEN DefaultBucket(ev)
            ELSE IF total_w <= 0 THEN DefaultBucket(ev)
            ELSE LET cut(alloc) ==
                         [alloc |-> alloc,
                          top |-> TopOf(SortedByAmountDesc(alloc), top_k, ev)]
                 IN  cut(List([j \in 1..Len(cat_weights) |->
                             [category |-> cat_weights[j].category,
                              amount |-> AllocOne(cat_weights[j].w, total_w, ev)]]))
    IN  allocated(Max2(0, expense_value),
                  SeqSum(List([j \in 1..Len(cat_weights) |-> Max2(0, cat_weights[j].w)])))

InitAllocator ==
    /\ np = TRUE
    /\ u_pc = "input"
    /\ u_in \in [expense_value : {0 - 5, 0, 7, 40}, cat_weights : ProfilePool,
                 top_k : {0, 1, 2, 8}]
    /\ u_out = <<>>
    /\ SeriesIdle
    /\ SerIdle
    /\ MainIdle

Allocate ==
    /\ u_pc = "input"
    /\ u_pc' = "allocated"
    /\ u_out' = allocate_expense_to_categories(u_in.expense_value, u_in.cat_weights,
                                               u_in.top_k)
    /\ UNCHANGED <<np, u_in, seriesVars, serVars, mainVars>>

NextAllocator == Allocate

SpecAllocator == InitAllocator /\ [][NextAllocator]_vars

\* the amounts of an allocation and the shares of a reported list
AmountsOf(items) == List([j \in 1..Len(items) |-> items[j].amount])

SharesOf(top) == List([j \in 1..Len(top) |-> top[j].share])

\* C17: for every non-negative total and every weight profile the amounts of
\* the allocation are each >= 0 and sum to the total, every reported share is
\* in [0, 1], the reported shares sum to at most 1, and a category of negative
\* weight is allocated nothing.
C17_AllocationSumsToTotal ==
    (u_pc = "allocated" /\ u_in.expense_value >= 0) =>
        /\ \A j \in 1..Len(u_out.alloc) : FracLeq(Frac(0, 1), u_out.alloc[j].amount)
        /\ FracEq(FracSum(AmountsOf(u_out.alloc)), Frac(u_in.expense_value, 1))
        /\ \A j \in 1..Len(u_out.top) :
              /\ FracLeq(Frac(0, 1), u_out.top[j].share)
              /\ FracLeq(u_out.top[j].share, Frac(1, 1))
        /\ FracLeq(FracSum(SharesOf(u_out.top)), Frac(1, 1))
        /\ \A j \in 1..Len(u_in.cat_weights) : \A i \in 1..Len(u_out.alloc) :
              (u_in.cat_weights[j].w < 0
               /\ u_out.alloc[i].category = u_in.cat_weights[j].category)
                  => FracEq(u_out.alloc[i].amount, Frac(0, 1))

\* a total of 40 was allocated over a profile with a negative weight, a
\* weight of 300 and a weight of 100, all of them reported
W17_NegativeWeightAllocated ==
    /\ u_pc = "allocated"
    /\ u_in.expense_value = 40
    /\ u_in.top_k = 8
    /\ Len(u_in.cat_weights) = 3
    /\ u_in.cat_weights[1].w = 0 - 100
    /\ u_in.cat_weights[2].w = 300
    /\ u_in.cat_weights[3].w = 100
    /\ Len(u_out.top) = 3
    /\ u_out.top[1].category = "Mercado"
    /\ FracEq(u_out.top[1].amount, Frac(30, 1))
    /\ FracEq(u_out.top[3].amount, Frac(0, 1))

\* the weights of a profile as the function takes them: max(0.0, w)
EffectiveWeights(cat_weights) ==
    List([j \in 1..Len(cat_weights) |-> Max2(0, cat_weights[j].w)])

\* the items of a reported list are in descending order of amount
Descending(top) ==
    \A j \in 1..(Len(top) - 1) : FracLeq(top[j + 1].amount, top[j].amount)

\* every reported item is a category of the allocation with its amount, and
\* its share is that amount over the total
ReportedFrom(top, alloc, total) ==
    \A j \in 1..Len(top) :
        /\ \E i \in 1..Len(alloc) :
              /\ alloc[i].category = top[j].category
              /\ alloc[i].amount = top[j].amount
        /\ total > 0 => FracEq(top[j].share, Frac(top[j].amount.n, top[j].amount.d * total))
        /\ \A i \in 1..Len(alloc) :
              (\A k \in 1..Len(top) : top[k].category # alloc[i].category)
                  => FracLeq(alloc[i].amount, top[j].amount)

\* C18: each category is allocated total x weight / sum(weights), weights below
\* zero counting as zero (300 and 100 with a total of 40 give 30 and 10, shares
\* 0.75 and 0.25); an empty profile or one without a positive weight gives the
\* whole total to the single bucket "Outros" with share 1; the reported list is
\* in descending order of amount and holds min(max(1, top_k), number of
\* categories allocated) items, the largest ones.
C18_ProportionalAllocation ==
    (u_pc = "allocated" /\ u_in.expense_value >= 0) =>
        IF SeqSum(EffectiveWeights(u_in.cat_weights)) <= 0
        THEN /\ u_out.alloc = <<[category |-> "Outros",
                                 amount |-> Frac(u_in.expense_value, 1)]>>
             /\ u_out.top = <<[category |-> "Outros",
                               amount |-> Frac(u_in.expense_value, 1),
                               share |-> Frac(1, 1)]>>
        ELSE /\ Len(u_out.alloc) = Len(u_in.cat_weights)
             /\ \A j \in 1..Len(u_in.cat_weights) :
                   /\ u_out.alloc[j].category = u_in.cat_weights[j].category
                   /\ FracEq(u_out.alloc[j].amount,
                             Frac(u_in.expense_value * EffectiveWeights(u_in.cat_weights)[j],
                                  SeqSum(EffectiveWeights(u_in.cat_weights))))
             /\ Len(u_out.top) = Min2(Max2(1, u_in.top_k), Len(u_out.alloc))
             /\ Descending(u_out.top)
             /\ ReportedFrom(u_out.top, u_out.alloc, u_in.expense_value)

\* the scenario: weights 100 and 300 and a total of 40 give 10 and 30, reported
\* as 30 (share 0.75) then 10 (share 0.25)
W18_ThirtyAndTen ==
    /\ u_pc = "allocated"
    /\ u_in.expense_value = 40
    /\ u_in.cat_weights = <<[category |-> "Moradia", w |-> 100],
                            [category |-> "Mercado", w |-> 300]>>
    /\ u_in.top_k = 8
    /\ FracEq(u_out.alloc[1].amount, Frac(10, 1))
    /\ FracEq(u_out.alloc[2].amount, Frac(30, 1))
    /\ Len(u_out.top) = 2
    /\ u_out.top[1].category = "Mercado"
    /\ FracEq(u_out.top[1].share, Frac(3, 4))
    /\ FracEq(u_out.top[2].share, Frac(1, 4))

\* a profile without a positive weight went to the default bucket
W18_DefaultBucket ==
    /\ u_pc = "allocated"
    /\ u_in.expense_value = 40
    /\ Len(u_in.cat_weights) = 2
    /\ u_in.top_k = 8
    /\ u_out.top = <<[category |-> "Outros", amount |-> Frac(40, 1), share |-> Frac(1, 1)]>>

\* a top_k of 0 reported one item out of three
W18_TopKFloor ==
    /\ u_pc = "allocated"
    /\ u_in.top_k = 0
    /\ Len(u_out.alloc) = 3
    /\ Len(u_out.top) = 1

\* the weight of a flag in the risk score
FlagWeight(a) ==
    CASE a = "despesa_acima" -> 3
      [] a = "saldo_negativo" -> 4
      [] a = "incerteza_elevada" -> 2
      [] OTHER -> 0

Flags == {"despesa_acima", "saldo_negativo", "incerteza_elevada"}

\* the flags a result carries an alert for
RaisedFlags(res) == {res.alerts[j] : j \in 1..Len(res.alerts)}

\* the sum of the weights of a set of flags
RECURSIVE WeightSum(_)
WeightSum(fs) ==
    IF fs = {} THEN 0
    ELSE LET a == CHOOSE x \in fs : TRUE
         IN  FlagWeight(a) + WeightSum(fs \ {a})

\* C19: in every daily forecast result with non-empty history risk_score is
\* an integer in [0, 10] equal to the sum of the weights of the flags raised
\* (3 expense above the recent norm, 4 negative total net, 2 high uncertainty),
\* the negative-net flag is raised exactly when net_pred_total < 0, and the
\* alerts hold exactly one alert per raised flag.
C19_RiskScore ==
    (DailyCall /\ result.exc = "none" /\ trained.history # <<>>) =>
        /\ result.risk_score \in 0..10
        /\ RaisedFlags(result) \subseteq Flags
        /\ Len(result.alerts) = Cardinality(RaisedFlags(result))
        /\ result.risk_score = WeightSum(RaisedFlags(result))
        /\ ("saldo_negativo" \in RaisedFlags(result)) <=> (result.kpis.net_pred_total < 0)

\* a daily forecast raised the three flags and scored 9
W19_AllFlags ==
    /\ DailyCall
    /\ result.exc = "none"
    /\ result.alerts = <<"despesa_acima", "saldo_negativo", "incerteza_elevada">>
    /\ result.risk_score = 9

\* a daily forecast with a positive net raised no negative-net flag
W19_PositiveNet ==
    /\ DailyCall
    /\ result.exc = "none"
    /\ trained.history # <<>>
    /\ result.kpis.net_pred_total > 0
    /\ "saldo_negativo" \notin RaisedFlags(result)

\* a daily forecast with a net of exactly zero raised no negative-net flag
W19_ZeroNet ==
    /\ DailyCall
    /\ result.exc = "none"
    /\ trained.history # <<>>
    /\ result.series # <<>>
    /\ result.kpis.net_pred_total = 0

\* a daily forecast raised no flag and scored 0
W19_NoFlag ==
    /\ DailyCall
    /\ result.exc = "none"
    /\ trained.history # <<>>
    /\ result.alerts = <<>>
    /\ result.risk_score = 0

----------------------------------------------------------------------------
(* Claims about the feature rows of the forecast (checked under Spec)      *)

\* training selected an ML algorithm for a target of the payload
MLSelected(p) ==
    /\ p.targets.present
    /\ \/ p.targets.income.algo # "baseline_seasonal"
       \/ p.targets.expense.algo # "baseline_seasonal"

\* the values of a field of the first h - 1 points of a series
PredsBefore(series, h, income) ==
    List([j \in 1..(h - 1) |->
            IF income THEN series[j].income_pred ELSE series[j].expense_pred])

\* the feature row of step h of the daily loop, for the extended series ext
\* and the points the loop produced; dates has grown by the h - 1 dates the
\* earlier steps appended when t_idx is computed
DailyStepRow(ext, lags, series, h) ==
    ForecastRowDaily(series[h].date, ((Len(ext.dates) + (h - 1)) - 1) + h,
                     ext.inc \o PredsBefore(series, h, TRUE),
                     ext.exp \o PredsBefore(series, h, FALSE),
                     EffLags(lags, Len(ext.inc) + h - 1, Len(ext.exp) + h - 1))

\* the feature row of step h of the monthly loop
MonthlyStepRow(kept, lags, series, h) ==
    ForecastRowMonthly(series[h].ym, (Len(kept) - 1) + h,
                       List([j \in 1..Len(kept) |-> kept[j].income])
                           \o PredsBefore(series, h, TRUE),
                       List([j \in 1..Len(kept) |-> kept[j].expense_total])
                           \o PredsBefore(series, h, FALSE),
                       lags)

\* the first row of the training matrix of a daily history
DailyTrainingRow(hist, lags) ==
    SupervisedRowDaily(List([j \in 1..Len(hist) |-> hist[j].date]),
                       List([j \in 1..Len(hist) |-> hist[j].income]),
                       List([j \in 1..Len(hist) |-> hist[j].expense]), lags, lags)

\* the first row of the training matrix of a monthly history
MonthlyTrainingRow(hist, lags) ==
    SupervisedRowMonthly(List([j \in 1..Len(hist) |-> hist[j].ym]),
                         List([j \in 1..Len(hist) |-> hist[j].income]),
                         List([j \in 1..Len(hist) |-> hist[j].expense_total]), lags, lags)

\* the models of the payload that load take rows of n features
ModelsTake(p, n) ==
    \A t \in {p.targets.income, p.targets.expense} :
        _safe_load_model(t.model_b64).val # NoModel
            => _safe_load_model(t.model_b64).val.nfeat = n

\* every step of a daily forecast built a row as long as the training rows
DailyRowsAsTrained(hist, ext, lags, series) ==
    /\ DailyForecastLags(lags, Len(hist)) = lags
    /\ Len(DailyTrainingRow(hist, lags)) = NFeatDaily(lags)
    /\ \A h \in 1..Len(series) :
          /\ EffLags(DailyForecastLags(lags, Len(hist)),
                     Len(ext.inc) + h - 1, Len(ext.exp) + h - 1) = lags
          /\ Len(DailyStepRow(ext, DailyForecastLags(lags, Len(hist)), series, h))
                = NFeatDaily(lags)

\* every step of a monthly forecast built a row as long as the training rows
MonthlyRowsAsTrained(kept, lags, series) ==
    /\ MonthlyForecastLags(lags, Len(kept)) = lags
    /\ Len(MonthlyTrainingRow(kept, lags)) = NFeatMonthly(lags)
    /\ \A h \in 1..Len(series) :
          Len(MonthlyStepRow(kept, MonthlyForecastLags(lags, Len(kept)), series, h))
              = NFeatMonthly(lags)

\* the lag counts a training call can be asked for, and the series lengths,
\* over which the lag adjustments are compared
MaxLagsAsked == 31

MaxSeriesLen == 95

\* for every series length and every lag count asked for, when the series has
\* the 20 supervised samples an ML algorithm needs, the lag count the daily
\* training kept is the one the forecast uses on the stored history (the last
\* 90 days) at every step, and likewise for the monthly pair
LagsKeptWhenML ==
    \A n \in 1..MaxSeriesLen : \A asked \in 1..MaxLagsAsked :
        /\ n - DailyLags(asked, n) >= MinSamples =>
              /\ DailyForecastLags(DailyLags(asked, n), Min2(n, 90)) = DailyLags(asked, n)
              /\ \A k \in 0..MaxHorizon :
                    EffLags(DailyLags(asked, n), Min2(n, 90) + k, Min2(n, 90) + k)
                        = DailyLags(asked, n)
        /\ n - MonthlyLags(asked, n) >= MinSamples =>
              MonthlyForecastLags(MonthlyLags(asked, n), n) = MonthlyLags(asked, n)

\* C20: for every payload produced by training in which an ML algorithm was
\* selected, the feature row built at every step of the recursive forecast has
\* the length of the rows of the training matrix, 8 + 2 lags + 6 for daily and
\* 4 + 2 lags + 6 for monthly, which is what the stored models take; the
\* forecast-time lag adjustment leaves the lag count of such a payload as it is.
C20_FeatureLengthInvariant ==
    /\ LagsKeptWhenML
    /\ (Forecasted /\ AsTrained /\ MLSelected(trained) /\ result.exc = "none") =>
          /\ tr.gran = "daily" =>
                /\ ModelsTake(trained, NFeatDaily(trained.lags))
                /\ DailyRowsAsTrained(SortedHist, Extended, trained.lags, result.series)
          /\ tr.gran = "monthly" =>
                /\ ModelsTake(trained, NFeatMonthly(trained.lags))
                /\ MonthlyRowsAsTrained(trained.history, trained.lags, result.series)

\* a daily forecast of two steps ran on a payload with a ridge model for income
W20_DailyMLForecast ==
    /\ DailyCall /\ AsTrained /\ result.exc = "none"
    /\ trained.targets.income.algo = "ridge"
    /\ result.meta.income_algo = "ridge"
    /\ trained.lags = 3
    /\ Len(result.series) = 2
    /\ Len(DailyStepRow(Extended, 3, result.series, 2)) = 20

\* a monthly forecast of two steps ran on a payload with a boosted model
W20_MonthlyMLForecast ==
    /\ MonthlyCall /\ AsTrained /\ result.exc = "none"
    /\ trained.targets.expense.algo = "hgb"
    /\ result.meta.expense_algo = "hgb"
    /\ Len(result.series) = 2
    /\ Len(MonthlyStepRow(trained.history, trained.lags, result.series, 2))
          = 4 + 2 * trained.lags + 6

----------------------------------------------------------------------------
(* Claims about the payload across a forecast call (checked under Spec)    *)

\* the step of the specification is a forecast call
ForecastStep == pc = "trained" /\ pc' = "done"

W21_MonthlyNotMutated ==
    /\ MonthlyCall /\ AsTrained /\ result.exc = "none"
    /\ Len(result.series) = 2
    /\ trained = train_monthly_sklearn(tr.rows, tr.lags, tr.force_ml, tr.f_inc, tr.f_exp)

----------------------------------------------------------------------------
(* Claims about the forecast features against the training features        *)
(* (checked under Spec)                                                    *)

\* the dates of the first h points of a series
DatesThrough(series, h) == List([j \in 1..h |-> series[j].date])

\* the row _make_supervised_daily builds for the period of step h, on the
\* series made of the extended history and the points before step h
DailyTrainingRowAt(ext, lags, series, h) ==
    SupervisedRowDaily(ext.dates \o DatesThrough(series, h),
                       ext.inc \o PredsBefore(series, h, TRUE),
                       ext.exp \o PredsBefore(series, h, FALSE),
                       lags, Len(ext.dates) + h - 1)

\* every step of the forecast built the row training builds for its period
DailyRowsEqualTraining(ext, lags, series) ==
    \A h \in 1..Len(series) :
        DailyStepRow(ext, lags, series, h) = DailyTrainingRowAt(ext, lags, series, h)

\* C22: in a daily forecast on a payload with an ML algorithm, the feature
\* row built at every step h is, component by component, the row the training
\* feature construction builds for the same period of the same series; the
\* period index of each step continues the index of the training series.
C22_ForecastRowAsTraining ==
    (DailyCall /\ AsTrained /\ result.exc = "none" /\ MLSelected(trained))
        => DailyRowsEqualTraining(Extended,
                                  DailyForecastLags(trained.lags, Len(SortedHist)),
                                  result.series)

\* the first step of such a forecast does build the training row: the
\* divergence starts at the second step
X22_FirstStepAgrees ==
    (DailyCall /\ AsTrained /\ result.exc = "none" /\ MLSelected(trained)
        /\ Len(result.series) >= 1)
        => DailyStepRow(Extended, DailyForecastLags(trained.lags, Len(SortedHist)),
                        result.series, 1)
             = DailyTrainingRowAt(Extended,
                        DailyForecastLags(trained.lags, Len(SortedHist)),
                        result.series, 1)

----------------------------------------------------------------------------
(* The risk statistics of a daily forecast on a short history:             *)
(* train_daily_sklearn, then forecast_next_days_daily_v2                   *)

\* the expenses of the three days of the history
RiskExpensePool == {0, 100, 200, 400, 500}

\* the rows of 2025-01-01 .. 2025-01-03 with no income and the expenses exps
RiskRows(exps) == List([d \in 1..3 |-> Row(KStr(Ymd(2025, 1, d)), ANum(0), ANum(exps[d]))])

\* the anchors of the call: the day after the history, and five days after
RiskAnchorPool == {Anchor(Ymd(2025, 1, 4)), Anchor(Ymd(2025, 1, 8))}

InitRisk ==
    /\ np = TRUE
    /\ u_pc = "input"
    /\ u_in \in [exps : [1..3 -> RiskExpensePool], days : 1..MaxDays,
                 anchor_date : RiskAnchorPool]
    /\ u_out = <<>>
    /\ SeriesIdle
    /\ SerIdle
    /\ MainIdle

\* the payload of the training call and the result of the forecast on it
RiskCallOf(payload, days, anchor_date) ==
    [payload |-> payload,
     result  |-> forecast_next_days_daily_v2(payload, days, anchor_date, <<>>)]

TrainAndForecast ==
    /\ u_pc = "input"
    /\ u_pc' = "forecast"
    /\ u_out' = RiskCallOf(train_daily_sklearn(RiskRows(u_in.exps), 3, FALSE, NoFit, NoFit),
                           u_in.days, u_in.anchor_date)
    /\ UNCHANGED <<np, u_in, seriesVars, serVars, mainVars>>

NextRisk == TrainAndForecast

SpecRisk == InitRisk /\ [][NextRisk]_vars

\* alerts and risk score of the call when the recent-history statistics are
\* taken over the expense series exp_sample
RiskOver(exp_sample, p, days, res) ==
    RiskOf(exp_sample, days, res.kpis.expense_pred_total, res.kpis.net_pred_total,
           TargetState(p.targets.income, p.targets.present).std,
           TargetState(p.targets.expense, p.targets.present).std)

\* the alerts and the score of the result are those of the statistics over
\* exp_sample
RiskIsOver(exp_sample, p, days, res) ==
    /\ res.alerts = RiskOver(exp_sample, p, days, res).alerts
    /\ res.risk_score = RiskOver(exp_sample, p, days, res).risk_score

\* the expense history of the payload, extended with zeros up to the anchor
HistoryExp(p, anchor_date) ==
    ExtendedFrom(_sort_unique_daily_hist(p.history).rows, Strip(anchor_date.s)).exp

\* the forecast of the specification returned a series
RiskForecasted ==
    /\ u_pc = "forecast"
    /\ u_out.result.exc = "none"
    /\ Len(u_out.result.series) = u_in.days

\* C23: the mean and the standard deviation behind the risk flags of a daily
\* forecast are taken over the last 60 days of the (possibly zero-extended)
\* expense history only: the alerts and the score of the result are those the
\* history without any value predicted in the call gives.
C23_RiskSampleIsHistory ==
    RiskForecasted
        => RiskIsOver(HistoryExp(u_out.payload, u_in.anchor_date),
                      u_out.payload, u_in.days, u_out.result)

\* the alerts and the score of the result are those of the statistics over
\* the working series after the loop, predictions of the call included
X23_RiskSampleIsWorkingSeries ==
    RiskForecasted
        => RiskIsOver(HistoryExp(u_out.payload, u_in.anchor_date)
                        \o PredsBefore(u_out.result.series, u_in.days + 1, FALSE),
                      u_out.payload, u_in.days, u_out.result)

----------------------------------------------------------------------------
(* Claims about the errors reported for a degenerate target (checked       *)
(* under Spec)                                                             *)

\* the validation error and the baseline error of a target are both its
\* residual standard deviation
ErrorsAreResidStd(t) == t.mae_val = t.resid_std /\ t.baseline_mae_val = t.resid_std

\* C24: when a training run, daily or monthly, is degenerate (runtime
\* unavailable or too little history) and returns targets, each target's
\* mae_val and baseline_mae_val are both equal to its resid_std, whichever
\* path of the trainer produced the target.
C24_DegenerateErrorsAreStd ==
    (Trained /\ trained.exc = "none" /\ AsTrained /\ DegenerateRun
        /\ trained.targets.present)
        => /\ ErrorsAreResidStd(trained.targets.income)
           /\ ErrorsAreResidStd(trained.targets.expense)

\* the degenerate targets that _fit_one_target itself returns (the history
\* passed the length test of the trainer but leaves fewer than 20 samples)
\* do report their residual standard deviation as both errors
X24_FitOneTargetErrorsAreStd ==
    (Trained /\ trained.exc = "none" /\ AsTrained /\ np
        /\ trained.targets.present /\ trained.warning = "none"
        /\ Len(trained.history) - trained.lags < 20)
        => /\ ErrorsAreResidStd(trained.targets.income)
           /\ ErrorsAreResidStd(trained.targets.expense)

----------------------------------------------------------------------------
(* Claims about the order of the steps of the recursion (checked under     *)
(* Spec)                                                                   *)

\* the daily loop of the call, stopped after h steps: the points emitted and
\* the working series that step h + 1 builds its features from
DailyLoopAfter(ext, lags, p, h) ==
    DailyLoop(1, h, ext.dates, ext.inc, ext.exp, lags,
              TargetState(p.targets.income, p.targets.present),
              TargetState(p.targets.expense, p.targets.present),
              Strptime(ext.dates[Len(ext.dates)]), <<>>)

\* the monthly loop of the call, stopped after h steps
MonthlyLoopAfter(kept, lags, p, h) ==
    MonthlyLoop(1, h, Len(kept),
                List([j \in 1..Len(kept) |-> kept[j].income]),
                List([j \in 1..Len(kept) |-> kept[j].expense_total]),
                lags,
                TargetState(p.targets.income, p.targets.present),
                TargetState(p.targets.expense, p.targets.present),
                Strip(kept[Len(kept)].ym), <<>>)

\* after h steps the loop has emitted the first h points of the series, each
\* working series has grown by one entry per step from n0, and its k-th value
\* from the end, k <= h, is the prediction of step h + 1 - k
WorkingSeriesAfter(w, n0, series, h) ==
    /\ w.exc = "none"
    /\ w.preds = SubSeq(series, 1, h)
    /\ Len(w.inc_vals) = n0 + h
    /\ Len(w.exp_vals) = n0 + h
    /\ \A k \in 1..h :
          /\ NegIdx(w.inc_vals, k) = series[h + 1 - k].income_pred
          /\ NegIdx(w.exp_vals, k) = series[h + 1 - k].expense_pred

\* in a feature row with nfeats calendar features and lags lag values per
\* series, the lag-k income and expense values, k <= h, are the predictions
\* of step h + 1 - k
LagsArePredictions(row, nfeats, lags, series, h) ==
    \A k \in 1..Min2(h, lags) :
        /\ row[nfeats + k] = series[h + 1 - k].income_pred
        /\ row[nfeats + lags + k] = series[h + 1 - k].expense_pred

\* the feature row step h + 1 of the daily loop builds from the working
\* series w that step h left
DailyNextRow(w, ext, lags, h) ==
    ForecastRowDaily(Strftime(Strptime(ext.dates[Len(ext.dates)]) + h + 1),
                     (Len(ext.dates) + h - 1) + h + 1,
                     w.inc_vals, w.exp_vals,
                     EffLags(lags, Len(w.inc_vals), Len(w.exp_vals)))

\* the feature row step h + 1 of the monthly loop builds
MonthlyNextRow(w, kept, lags, h) ==
    ForecastRowMonthly(_add_months(Strip(kept[Len(kept)].ym), h + 1),
                       (Len(kept) - 1) + h + 1, w.inc_vals, w.exp_vals, lags)

DailyStepsOrdered(ext, lags, p, series) ==
    \A h \in 1..Len(series) :
        /\ WorkingSeriesAfter(DailyLoopAfter(ext, lags, p, h), Len(ext.inc), series, h)
        /\ LagsArePredictions(
               DailyNextRow(DailyLoopAfter(ext, lags, p, h), ext, lags, h), 8,
               EffLags(lags, Len(ext.inc) + h, Len(ext.exp) + h), series, h)

MonthlyStepsOrdered(kept, lags, p, series) ==
    \A h \in 1..Len(series) :
        /\ WorkingSeriesAfter(MonthlyLoopAfter(kept, lags, p, h), Len(kept), series, h)
        /\ LagsArePredictions(
               MonthlyNextRow(MonthlyLoopAfter(kept, lags, p, h), kept, lags, h), 4,
               lags, series, h)

\* the months of the payload's history that the monthly forecast keeps
KeptMonths(p) == SelectSeq(p.history, LAMBDA r : Strip(r.ym) # <<>>)

\* C25: at every step h of a forecast (daily or monthly) the clamped income
\* and expense predictions are appended to the working series after the point
\* is emitted and before step h + 1 builds its features: after step h each
\* working series has grown by exactly h entries, and in the row of step
\* h + 1 the lag-1 values are the predictions of step h and the lag-k values,
\* k <= h, those of step h + 1 - k.
C25_RecursiveStepOrdering ==
    /\ (DailyCall /\ result.exc = "none" /\ Len(result.series) >= 1)
          => DailyStepsOrdered(Extended, DailyForecastLags(trained.lags, Len(SortedHist)),
                               trained, result.series)
    /\ (MonthlyCall /\ result.exc = "none" /\ Len(result.series) >= 1)
          => MonthlyStepsOrdered(KeptMonths(trained),
                                 MonthlyForecastLags(trained.lags, Len(KeptMonths(trained))),
                                 trained, result.series)

\* a daily forecast of two steps with a boosted model for income, which adds
\* 2 to the lag-1 income: the second prediction is the first plus 2
W25_SecondStepReadsFirst ==
    /\ DailyCall /\ AsTrained /\ result.exc = "none"
    /\ result.meta.income_algo = "hgb"
    /\ Len(result.series) = 2
    /\ result.series[1].income_pred > 0
    /\ result.series[2].income_pred = result.series[1].income_pred + 2

\* a monthly forecast of two steps on a history of three months
W25_MonthlyTwoSteps ==
    /\ MonthlyCall /\ result.exc = "none"
    /\ Len(trained.history) = 3
    /\ Len(result.series) = 2
    /\ result.series[1].income_pred > 0

----------------------------------------------------------------------------
(* The baseline of the walk-forward validation and the baseline of the     *)
(* forecast, on the same history                                           *)

\* the values of a history
BaselineValues == {100, 400}

\* the longest history, in periods
MaxHist == 8

\* the days of a history of n days from 2025-01-01, and the day after it
BaselineDates(n) == DaySeq(Strptime(Ymd(2025, 1, 1)), Strptime(Ymd(2025, 1, 1)) + n)

\* the prediction of the baseline_fit_predict closure of _fit_one_target at
\* the walk-forward step whose training part is vals: the daily trainer passes
\* the dates of the samples, the monthly trainer passes dates_for_baseline=None
WalkBaseline(gran, vals) ==
    IF gran = "daily"
    THEN baseline_fit_predict(Append(vals, 0), BaselineDates(Len(vals)), TRUE, Len(vals))
    ELSE baseline_fit_predict(Append(vals, 0), <<>>, FALSE, Len(vals))

\* the prediction of the forecast for the period after vals when the target
\* runs as baseline_seasonal
ForecastBaseline(gran, vals) ==
    IF gran = "daily"
    THEN _predict_one("baseline_seasonal", NoModel,
                      FirstN(BaselineDates(Len(vals)), Len(vals)), vals,
                      BaselineDates(Len(vals))[Len(vals) + 1], <<>>, FALSE)
    ELSE MonthlyPredict("baseline_seasonal", NoModel, vals, <<>>, FALSE)

InitBaseline ==
    /\ np = TRUE
    /\ u_pc = "input"
    /\ u_in \in [gran : {"daily", "monthly"},
                 vals : SeqsUpTo(BaselineValues, MaxHist) \ {<<>>}]
    /\ u_out = <<>>
    /\ SeriesIdle
    /\ SerIdle
    /\ MainIdle

PredictBaseline ==
    /\ u_pc = "input"
    /\ u_pc' = "predicted"
    /\ u_out' = [walk     |-> WalkBaseline(u_in.gran, u_in.vals),
                 forecast |-> ForecastBaseline(u_in.gran, u_in.vals)]
    /\ UNCHANGED <<np, u_in, seriesVars, serVars, mainVars>>

NextBaseline == PredictBaseline

SpecBaseline == InitBaseline /\ [][NextBaseline]_vars

\* C26: for each granularity the baseline scored by the walk-forward
\* validation is the estimator the forecast runs for a baseline_seasonal
\* target: on the same history and target period both give the same
\* prediction.
C26_SameBaseline ==
    u_pc = "predicted" => u_out.walk = u_out.forecast

\* for the daily granularity the two predictions are the same
X26_DailySameBaseline ==
    (u_pc = "predicted" /\ u_in.gran = "daily") => u_out.walk = u_out.forecast

----------------------------------------------------------------------------
(* Claims about the samples a model needs and the lag count of the payload *)
(* (checked under Spec)                                                    *)

\* for every series length and every lag count asked for (zero and negative
\* ones included) the lag count the trainers keep is in 3..30 for daily and
\* in 2..12 for monthly
LagsKeptInRange ==
    \A n \in 1..MaxSeriesLen : \A asked \in (0 - 2)..MaxLagsAsked :
        /\ DailyLags(asked, n) \in 3..30
        /\ MonthlyLags(asked, n) \in 2..12

\* a target of n samples (a saw-tooth) with rows of nfeat zero features
GateY(n) == List([j \in 1..n |-> 100 * (j % 3)])

GateX(n, nfeat) == List([j \in 1..n |-> List([c \in 1..nfeat |-> 0])])

\* what _fit_one_target returns for n samples when the library's ridge has a
\* walk-forward MAE of zero and the caller forces ML
GateTarget(n) ==
    _fit_one_target(GateX(n, NFeatMonthly(2)), GateY(n), <<>>, FALSE, TRUE,
                    [ridge_mae |-> 0, hgb_mae |-> 1,
                     ridge |-> Model("ridge", NFeatMonthly(2), 0 - 3, 0, 5),
                     hgb   |-> Model("hgb", NFeatMonthly(2), 2, 1, 5)])

\* with the numeric runtime present, 19 samples give the baseline whatever
\* the library would find, and 20 samples let the forced ridge through
SamplesGate ==
    np => /\ GateTarget(MinSamples - 1).algo = "baseline_seasonal"
          /\ GateTarget(MinSamples - 1).model_b64 = NoToken
          /\ GateTarget(MinSamples).algo = "ridge"

\* the gap-filled series of the training call of the specification
TrainedSeries ==
    IF tr.gran = "daily" THEN fill_daily_series(tr.rows) ELSE fill_monthly_series(tr.rows)

\* the payload of a series of n periods: its lags are in the range of its
\* granularity, a non-baseline algorithm is there only with 20 samples, and
\* fewer samples give the baseline for both targets
SamplesAndLags(p, gran, n) ==
    /\ gran = "daily" => p.lags \in 3..30
    /\ gran = "monthly" => p.lags \in 2..12
    /\ MLSelected(p) => n - p.lags >= MinSamples
    /\ n - p.lags < MinSamples => BaselineOnly(p)

\* C27: a non-baseline algorithm is selected for a target only when the
\* gap-filled series minus the effective lag count leaves at least 20
\* supervised samples; for every shorter history and every lag count asked
\* for, both targets are baseline_seasonal; the lag count stored in the
\* payload of a non-empty history is in 3..30 (daily) or 2..12 (monthly).
C27_SamplesAndLagBounds ==
    /\ LagsKeptInRange
    /\ SamplesGate
    /\ (Trained /\ trained.exc = "none" /\ AsTrained /\ trained.history # <<>>)
          => SamplesAndLags(trained, tr.gran, Len(TrainedSeries.dates))

\* a daily series of 25 days asked with 14 lags leaves 11 samples: baseline
\* for both targets, with the numeric runtime present
W27_TooFewSamples ==
    /\ Trained /\ trained.exc = "none" /\ AsTrained /\ np
    /\ tr.gran = "daily" /\ tr.lags = 14 /\ trained.lags = 14
    /\ Len(TrainedSeries.dates) = 25
    /\ BaselineOnly(trained)

\* the same series asked with 3 lags leaves 22 samples, and a model is stored
W27_EnoughSamples ==
    /\ Trained /\ trained.exc = "none" /\ AsTrained
    /\ tr.gran = "daily" /\ trained.lags = 3
    /\ Len(TrainedSeries.dates) = 25
    /\ MLSelected(trained)

\* a monthly series of 23 months (March 2023 to January 2025) with 2 lags
\* leaves 21 samples, and a model is stored
W27_MonthlyEnoughSamples ==
    /\ Trained /\ trained.exc = "none" /\ AsTrained
    /\ tr.gran = "monthly" /\ trained.lags \in 2..12
    /\ Len(TrainedSeries.dates) - trained.lags >= MinSamples
    /\ MLSelected(trained)

----------------------------------------------------------------------------
(* The server's model store under concurrent requests for one model key:   *)
(* POST /forecast/daily/train and GET /forecast/daily (server.py).  The    *)
(* endpoints are plain functions, which the framework runs on worker       *)
(* threads; each request opens its own connection (db()).  In this         *)
(* specification u_in holds the kind of each request, u_pc its position,   *)
(* and u_out the ml_models row of the key and each request's local payload *)

\* the requests in flight
MaxRequests == 2

Requests == 1..MaxRequests

\* POST train, GET forecast with auto_train, GET forecast without it
RequestKinds == {"post_train", "get_auto_train", "get_no_auto_train"}

\* no row in ml_models for the key / no payload in the request
NoPayload == [by |-> 0]

\* the payload a training run of request r produces
PayloadBy(r) == [by |-> r]

\* a payload stored before the requests started
StoredBefore == [by |-> MaxRequests + 1]

InitServer ==
    /\ np = TRUE
    /\ u_in \in [Requests -> RequestKinds]
    /\ u_pc = [r \in Requests |-> "start"]
    /\ u_out \in [store : {NoPayload, StoredBefore},
                  payload : {[r \in Requests |-> NoPayload]},
                  fetched : {[r \in Requests |-> FALSE]}]
    /\ SeriesIdle
    /\ SerIdle
    /\ MainIdle

\* forecast_daily: payload = load_model(conn, name); without a payload the
\* request trains when auto_train is set and answers 404 otherwise
LoadModel(r) ==
    /\ u_in[r] # "post_train"
    /\ u_pc[r] = "start"
    /\ u_out' = [u_out EXCEPT !.payload[r] = u_out.store]
    /\ u_pc' = [u_pc EXCEPT ![r] =
                   IF u_out.store # NoPayload THEN "loaded"
                   ELSE IF u_in[r] = "get_auto_train" THEN "missing"
                   ELSE "not_found"]
    /\ UNCHANGED <<np, u_in, seriesVars, serVars, mainVars>>

\* rows = _fetch_daily_income_expense(conn, ...), in both endpoints
FetchRows(r) ==
    /\ \/ u_in[r] = "post_train" /\ u_pc[r] = "start"
       \/ u_pc[r] = "missing"
    /\ u_out' = [u_out EXCEPT !.fetched[r] = TRUE]
    /\ u_pc' = [u_pc EXCEPT ![r] = "fetched"]
    /\ UNCHANGED <<np, u_in, seriesVars, serVars, mainVars>>

\* payload = train_daily_sklearn(rows, lags=int(lags))
TrainModel(r) ==
    /\ u_pc[r] = "fetched"
    /\ u_out' = [u_out EXCEPT !.payload[r] = PayloadBy(r)]
    /\ u_pc' = [u_pc EXCEPT ![r] = "trained"]
    /\ UNCHANGED <<np, u_in, seriesVars, serVars, mainVars>>

\* train_daily_sklearn raised: the request answers 422 or 500 and saves nothing
TrainRaises(r) ==
    /\ u_pc[r] = "fetched"
    /\ u_pc' = [u_pc EXCEPT ![r] = "failed"]
    /\ UNCHANGED <<np, u_in, u_out, seriesVars, serVars, mainVars>>

\* save_model(conn, name, payload): one INSERT .. ON CONFLICT(name) DO UPDATE
\* and a commit; POST train then answers, GET goes on to the forecast
SaveModel(r) ==
    /\ u_pc[r] = "trained"
    /\ u_out' = [u_out EXCEPT !.store = u_out.payload[r]]
    /\ u_pc' = [u_pc EXCEPT ![r] = IF u_in[r] = "post_train" THEN "done" ELSE "loaded"]
    /\ UNCHANGED <<np, u_in, seriesVars, serVars, mainVars>>

\* forecast_next_days_daily(payload, days) and the response of GET
ForecastServed(r) ==
    /\ u_pc[r] = "loaded"
    /\ u_pc' = [u_pc EXCEPT ![r] = "done"]
    /\ UNCHANGED <<np, u_in, u_out, seriesVars, serVars, mainVars>>

NextServer ==
    \E r \in Requests :
        \/ LoadModel(r)
        \/ FetchRows(r)
        \/ TrainModel(r)
        \/ TrainRaises(r)
        \/ SaveModel(r)
        \/ ForecastServed(r)

SpecServer == InitServer /\ [][NextServer]_vars

\* the request is inside a training run: it has fetched the rows and has not
\* yet written the payload (or failed)
InTrainingRun(r) == u_pc[r] \in {"fetched", "trained"}

\* the requests of the specification that are inside a training run
TrainingRuns == {r \in Requests : InTrainingRun(r)}

\* C28: under any interleaving of concurrent requests for one model key
\* (POST train, GET forecast with auto_train on a key without payload), at
\* most one training run computes and writes the payload of the key at a
\* time: two overlapping requests are never both between their fetch and
\* their save.
C28_OneTrainingWriter ==
    Cardinality(TrainingRuns) <= 1

\* every payload a request holds or the store keeps is a whole payload: the
\* one stored before, or the one a single training run produced
X28_PayloadsAreWhole ==
    /\ u_out.store \in {NoPayload, StoredBefore} \cup {PayloadBy(r) : r \in Requests}
    /\ \A r \in Requests : u_pc[r] = "loaded" => u_out.payload[r] # NoPayload

----------------------------------------------------------------------------
(* Claims about the periods of the forecast points (checked under Spec)    *)

\* the months a forecast can start from, and the furthest step
MaxMonthsAhead == 24

StartMonths == {FmtYm(y, m) : y \in 2023..2024, m \in 1..12}

\* the number of the month of a YYYY-MM text, counted from year 0
MonthIndex(ym) == SplitYm(ym).y * 12 + (SplitYm(ym).m - 1)

\* e is a well-formed month, h calendar months after ym
MonthsAfter(ym, h, e) ==
    /\ SplitYm(e).m \in 1..12
    /\ e = FmtYm(SplitYm(e).y, SplitYm(e).m)
    /\ MonthIndex(e) = MonthIndex(ym) + h

\* _add_months(ym, h) is the month h months after ym, and it is the last of
\* the h + 1 months of month_seq(ym, _add_months(ym, h))
AddMonthsIsMonthSeq ==
    \A ym \in StartMonths : \A h \in 0..MaxMonthsAhead :
        /\ MonthsAfter(ym, h, _add_months(ym, h))
        /\ Len(month_seq(ym, _add_months(ym, h))) = h + 1
        /\ month_seq(ym, _add_months(ym, h))[h + 1] = _add_months(ym, h)

\* the dates of the points are the days after last, one day apart
DaysConsecutiveFrom(last, series) ==
    \A h \in 1..Len(series) :
        /\ Strptime(series[h].date) = Strptime(last) + h
        /\ series[h].date = Strftime(Strptime(last) + h)

\* the months of the points are the months after last, one month apart
MonthsConsecutiveFrom(last, series) ==
    \A h \in 1..Len(series) : MonthsAfter(last, h, series[h].ym)

\* C29: the periods of a forecast are consecutive and strictly increasing:
\* daily point h is dated h days after the last day of the (zero-extended)
\* series, monthly point h is the h-th calendar month after the last month
\* of the history, with the year carried after month 12; _add_months(ym, h)
\* is the last of the h + 1 elements of month_seq(ym, _add_months(ym, h)).
C29_ConsecutivePeriods ==
    /\ AddMonthsIsMonthSeq
    /\ (DailyCall /\ result.exc = "none" /\ Len(result.series) >= 1)
          => DaysConsecutiveFrom(Extended.dates[Len(Extended.dates)], result.series)
    /\ (MonthlyCall /\ result.exc = "none" /\ Len(result.series) >= 1)
          => MonthsConsecutiveFrom(Strip(KeptMonths(trained)[Len(KeptMonths(trained))].ym),
                                   result.series)

\* a monthly forecast of two months from a history ending in December 2024:
\* January and February 2025
W29_YearRollover ==
    /\ MonthlyCall /\ result.exc = "none"
    /\ Len(result.series) = 2
    /\ trained.history[Len(trained.history)].ym = FmtYm(2024, 12)
    /\ result.series[1].ym = FmtYm(2025, 1)
    /\ result.series[2].ym = FmtYm(2025, 2)

\* a daily forecast of two days from a series extended to 2025-01-30: the
\* points are 31 January and 1 February
W29_DailyMonthEnd ==
    /\ DailyCall /\ result.exc = "none"
    /\ Len(result.series) = 2
    /\ Extended.dates[Len(Extended.dates)] = Ymd(2025, 1, 30)
    /\ result.series[1].date = Ymd(2025, 1, 31)
    /\ result.series[2].date = Ymd(2025, 2, 1)

----------------------------------------------------------------------------
(* _fit_one_target called on its own: a target of n samples, the numeric   *)
(* runtime present or not, and the walk-forward MAE the library finds for  *)
(* each family given relative to the baseline's                            *)

\* the MAE of a family against the baseline MAE: zero, one below, equal, one
\* above
MaeKinds == {"zero", "below", "equal", "above"}

MaeOfKind(kind, base_mae) ==
    CASE kind = "zero" -> 0
      [] kind = "below" -> Max2(0, base_mae - 1)
      [] kind = "equal" -> base_mae
      [] OTHER -> base_mae + 1

\* the library's outcome for a call: the two MAEs and the two final fits
FitOfKinds(ridge_kind, hgb_kind, base_mae) ==
    [ridge_mae |-> MaeOfKind(ridge_kind, base_mae),
     hgb_mae |-> MaeOfKind(hgb_kind, base_mae),
     ridge |-> Model("ridge", NFeatMonthly(2), 0 - 3, 0, 5),
     hgb   |-> Model("hgb", NFeatMonthly(2), 2, 1, 5)]

InitFitOneTarget ==
    /\ np \in BOOLEAN
    /\ u_pc = "input"
    /\ u_in \in [n : (MinSamples - 1)..(MinSamples + 1), ridge : MaeKinds, hgb : MaeKinds,
                 force_ml : BOOLEAN]
    /\ u_out = <<>>
    /\ SeriesIdle
    /\ SerIdle
    /\ MainIdle

\* the call, with what the library found
FitCallOf(X, y, force_ml, fit) ==
    [fit |-> fit, target |-> _fit_one_target(X, y, <<>>, FALSE, force_ml, fit)]

FitOneTarget ==
    /\ u_pc = "input"
    /\ u_pc' = "fitted"
    /\ u_out' = FitCallOf(GateX(u_in.n, NFeatMonthly(2)), GateY(u_in.n), u_in.force_ml,
                          FitOfKinds(u_in.ridge, u_in.hgb,
                                     BaseMae(GateY(u_in.n), <<>>, FALSE)))
    /\ UNCHANGED <<np, u_in, seriesVars, serVars, mainVars>>

NextFitOneTarget == FitOneTarget

SpecFitOneTarget == InitFitOneTarget /\ [][NextFitOneTarget]_vars

\* the invariants of a TrainedTarget t returned when the library found fit:
\* baseline exactly when there is no model; the validation error is at most
\* the baseline error, and equal to it for a baseline target; ridge is only
\* selected strictly below the baseline, hgb only strictly below both
TargetInvariants(t, fit) ==
    /\ (t.algo = "baseline_seasonal") <=> (t.model_b64 = NoToken)
    /\ t.algo \in {"baseline_seasonal", "ridge", "hgb"}
    /\ t.mae_val <= t.baseline_mae_val
    /\ t.algo = "baseline_seasonal" => t.mae_val = t.baseline_mae_val
    /\ t.algo = "ridge" => fit.ridge_mae < t.baseline_mae_val /\ t.mae_val = fit.ridge_mae
    /\ t.algo = "hgb" => /\ fit.hgb_mae < t.baseline_mae_val
                         /\ fit.hgb_mae < fit.ridge_mae
                         /\ t.mae_val = fit.hgb_mae

\* C30: every TrainedTarget returned by _fit_one_target has algo
\* baseline_seasonal if and only if model_b64 is null, mae_val <=
\* baseline_mae_val, and mae_val = baseline_mae_val when algo is
\* baseline_seasonal; a tie between candidates goes to the baseline first and
\* to the linear model second.
C30_TrainedTargetInvariants ==
    u_pc = "fitted" => TargetInvariants(u_out.target, u_out.fit)

\* with 20 samples, the runtime present and ML forced, both families tie with
\* the baseline at a positive MAE: baseline_seasonal is returned
W30_TieGoesToBaseline ==
    /\ u_pc = "fitted" /\ np /\ u_in.n = MinSamples /\ u_in.force_ml
    /\ u_in.ridge = "equal" /\ u_in.hgb = "equal"
    /\ u_out.fit.ridge_mae > 0
    /\ u_out.target.algo = "baseline_seasonal"
    /\ u_out.target.model_b64 = NoToken

\* both families tie below the baseline: ridge is returned, with its model
W30_TieGoesToRidge ==
    /\ u_pc = "fitted" /\ np /\ u_in.n = MinSamples /\ u_in.force_ml
    /\ u_in.ridge = "below" /\ u_in.hgb = "below"
    /\ u_out.fit.ridge_mae = u_out.fit.hgb_mae
    /\ u_out.fit.ridge_mae < u_out.target.baseline_mae_val
    /\ u_out.target.algo = "ridge"
    /\ u_out.target.model_b64 # NoToken

\* the boosted trees alone are below the baseline and are returned
W30_HgbSelected ==
    /\ u_pc = "fitted" /\ np /\ u_in.n = MinSamples + 1
    /\ u_in.ridge = "above" /\ u_in.hgb = "zero"
    /\ u_out.target.algo = "hgb"
    /\ u_out.target.mae_val = 0

====
